---- MODULE Spec2Model ----
(***************************************************************************)
(* Model of utils/error_handling.py (retry_with_backoff, RateLimiter,      *)
(* handle_api_error, validate_input, safe_execute), of the generate_*      *)
(* methods of content_engine.py, of _log_execution and                     *)
(* run_daily_content_generation of main.py, of analyze_product of          *)
(* optimizer.py and of get_connection of database/db_helper.py.            *)
(*                                                                         *)
(* The clock advances in whole seconds and the delays of the retry wrapper *)
(* are whole seconds.  min_interval = 60.0 / requests_per_minute and the    *)
(* sleeps computed from it are exact rationals [num, den] in lowest terms.  *)
(***************************************************************************)
EXTENDS Integers, Sequences, FiniteSets, TLC

VARIABLES
    \* ---- retry_with_backoff ----
    cfg,             \* the decorator's arguments (max_retries, initial_delay, ...)
    pc,              \* position of wrapper(): idle, call, sleep, returned, raised
    attempt,         \* loop variable of "for attempt in range(max_retries + 1)"
    delay,           \* local "delay"
    last_exception,  \* local "last_exception"
    outcome,         \* what wrapper() handed to its caller
    log,             \* observed events of the current invocation: calls of func, sleeps
    invocations,     \* number of invocations of wrapper() so far
    prev,            \* the locals the previous invocation ended with (observation only)
    parked,          \* the locals of a second wrapper() frame that is not running
    \* ---- RateLimiter ----
    clock,           \* time.time()
    lim,             \* the RateLimiter instance
    tpc,             \* per thread: position inside wait_if_needed
    current_time,    \* per thread: local "current_time"
    sleep_time,      \* per thread: local "sleep_time" (0 when the branch is not taken)
    wake,            \* per thread: earliest clock value at which time.sleep returns
    seen,            \* per thread: self.last_request_time as read at line 181
    stamp,           \* per thread: time.time() as evaluated at line 188, before the store
    hist,            \* completed wait_if_needed calls, in order of completion
    \* ---- RateLimiter.__call__ ----
    dec,             \* the decorator's wrapper(): its position and the runs of the callable
    \* ---- handle_api_error, validate_input ----
    hlog,            \* applications of the handlers, with what they were given and gave back
    \* ---- ContentGenerator ----
    gen,             \* one generate_* call: its request, the LLM calls made, its outcome
    \* ---- retry_with_backoff around a RateLimiter-wrapped callable ----
    rl,              \* position between the two wrappers, and the attempts with their start times
    \* ---- LinorosoAutomation (main.py) ----
    elog,            \* execution_log in memory and logs/execution_log.json
    daily,           \* one run of run_daily_content_generation
    \* ---- ProductOptimizer.analyze_product ----
    opt,             \* the product analysed last and the analysis returned
    \* ---- DatabaseHelper.get_connection ----
    db               \* uses of the context manager: calls made on the connection, outcome

retryVars == <<cfg, pc, attempt, delay, last_exception, outcome, log, invocations, prev, parked>>
limVars == <<clock, lim, tpc, current_time, sleep_time, wake, seen, stamp, hist>>
auxVars == <<dec, hlog, gen>>
appVars == <<rl, elog, daily, opt, db>>
vars == <<cfg, pc, attempt, delay, last_exception, outcome, log, invocations, prev, parked,
          clock, lim, tpc, current_time, sleep_time, wake, seen, stamp, hist,
          dec, hlog, gen, rl, elog, daily, opt, db>>

----------------------------------------------------------------------------
(* Bounds of the model *)

MaxRetriesBound == 2
MaxInitialDelay == 2
MaxDelayCap == 3
MaxBase == 2
MaxInvocations == 2
MaxClock == 9
StartClockMax == 2
MaxLimiterCalls == 3
MaxRaceCalls == 2
MaxRaceClock == 6
MaxHandlerCalls == 2
MaxGenerations == 2

Min(a, b) == IF a <= b THEN a ELSE b
Max(a, b) == IF a >= b THEN a ELSE b

----------------------------------------------------------------------------
(* Rational numbers, for the quotients Python computes as floats *)

Abs(n) == IF n < 0 THEN -n ELSE n

RECURSIVE GCD(_, _)
GCD(a, b) == IF b = 0 THEN a ELSE GCD(b, a % b)

\* n / d for d # 0, in lowest terms with a positive denominator.
Frac(n, d) ==
    LET g == GCD(Abs(n), Abs(d))
        s == IF d < 0 THEN -1 ELSE 1
    IN  [num |-> (s * n) \div g, den |-> (s * d) \div g]

Whole(n) == [num |-> n, den |-> 1]
FracAdd(a, b) == Frac(a.num * b.den + b.num * a.den, a.den * b.den)
FracSub(a, b) == Frac(a.num * b.den - b.num * a.den, a.den * b.den)
FracLess(a, b) == a.num * b.den < b.num * a.den
FracLeq(a, b) == a.num * b.den <= b.num * a.den
FracMax(a, b) == IF FracLeq(b, a) THEN a ELSE b

----------------------------------------------------------------------------
(* Exception classes *)

NoException == [cls |-> "None", id |-> 0]

\* The (first) direct base class of each exception class: the classes this
\* package defines, those of the anthropic package it names, and Python's
\* built-in hierarchy.  A name that is no exception class has no base but
\* object.
Base(c) ==
    CASE c = "ValidationError" -> "Exception"
      [] c = "APIError" -> "Exception"
      [] c = "RateLimitError" -> "APIError"
      \* the classes of the anthropic package named by handle_api_error
      [] c = "anthropic.APIError" -> "Exception"
      [] c = "anthropic.APIConnectionError" -> "anthropic.APIError"
      [] c = "anthropic.APIStatusError" -> "anthropic.APIError"
      [] c = "anthropic.RateLimitError" -> "anthropic.APIStatusError"
      [] c = "anthropic.AuthenticationError" -> "anthropic.APIStatusError"
      \* json.JSONDecodeError, raised by json.loads
      [] c = "JSONDecodeError" -> "ValueError"
      \* the built-in exception classes
      [] c = "BaseException" -> "object"
      [] c \in {"BaseExceptionGroup", "Exception", "GeneratorExit",
                 "KeyboardInterrupt", "SystemExit"} -> "BaseException"
      [] c \in {"ArithmeticError", "AssertionError", "AttributeError",
                 "BufferError", "EOFError", "ImportError", "LookupError",
                 "MemoryError", "NameError", "OSError", "ReferenceError",
                 "RuntimeError", "StopAsyncIteration", "StopIteration",
                 "SyntaxError", "SystemError", "TypeError", "ValueError",
                 "Warning"} -> "Exception"
      [] c \in {"FloatingPointError", "OverflowError", "ZeroDivisionError"} -> "ArithmeticError"
      [] c \in {"IndexError", "KeyError"} -> "LookupError"
      [] c \in {"BlockingIOError", "ChildProcessError", "ConnectionError",
                 "FileExistsError", "FileNotFoundError", "InterruptedError",
                 "IsADirectoryError", "NotADirectoryError",
                 "PermissionError", "ProcessLookupError", "TimeoutError"} -> "OSError"
      [] c \in {"BrokenPipeError", "ConnectionAbortedError",
                 "ConnectionRefusedError", "ConnectionResetError"} -> "ConnectionError"
      [] c \in {"NotImplementedError", "RecursionError"} -> "RuntimeError"
      [] c \in {"UnicodeError"} -> "ValueError"
      [] c \in {"UnicodeDecodeError", "UnicodeEncodeError",
                 "UnicodeTranslateError"} -> "UnicodeError"
      [] c \in {"ModuleNotFoundError"} -> "ImportError"
      [] c \in {"UnboundLocalError"} -> "NameError"
      [] c \in {"IndentationError"} -> "SyntaxError"
      [] c \in {"TabError"} -> "IndentationError"
      [] c \in {"BytesWarning", "DeprecationWarning", "EncodingWarning",
                 "FutureWarning", "ImportWarning",
                 "PendingDeprecationWarning", "ResourceWarning",
                 "RuntimeWarning", "SyntaxWarning", "UnicodeWarning",
                 "UserWarning"} -> "Warning"
      [] c \in {"ExceptionGroup"} -> "BaseExceptionGroup"
      [] OTHER -> "object"

\* All direct base classes: ExceptionGroup is the one class with two.
Bases(c) == IF c = "ExceptionGroup" THEN {"BaseExceptionGroup", "Exception"} ELSE {Base(c)}

RECURSIVE IsSubclass(_, _)
IsSubclass(c, d) ==
    IF c = d THEN TRUE
    ELSE IF c = "object" THEN FALSE
    ELSE \E b \in Bases(c) : IsSubclass(b, d)

\* Mutant of Catches: a bare "except" that catches whatever is raised.
CatchesAnything(exceptions, e) == TRUE

\* "except exceptions as e": e is an instance of one of the listed classes.
Catches(exceptions, e) == \E d \in exceptions : IsSubclass(e.cls, d)

\* Default value of the "exceptions" argument.
DefaultExceptions == {"Exception"}

\* What one call of the wrapped function can do.
RaisedClasses == {"ValidationError", "RateLimitError", "ValueError", "TypeError",
                  "KeyboardInterrupt"}
ReturnValues == {"ok", "None"}

ExceptionTuples == {DefaultExceptions, {"APIError"}, {"ValueError"}}

Configs ==
    [max_retries : (-1) .. MaxRetriesBound,
     initial_delay : 1 .. MaxInitialDelay,
     max_delay : 1 .. MaxDelayCap,
     exponential_base : 0 .. MaxBase,
     exceptions : ExceptionTuples]

----------------------------------------------------------------------------
(* Event log of one invocation *)

CallEvents(l) == SelectSeq(l, LAMBDA e : e.ev \in {"raise", "return"})
SleepEvents(l) == SelectSeq(l, LAMBDA e : e.ev = "sleep")
NumCalls(l) == Len(CallEvents(l))

----------------------------------------------------------------------------
(* retry_with_backoff.wrapper *)

\* "delay = min(delay * exponential_base, max_delay)"
NextDelay(d, c) == Min(d * c.exponential_base, c.max_delay)

\* Mutant of Exhausted: the last attempt is not recognised, so it is followed
\* by a sleep before the loop ends.
ExhaustedLate(a, c) == a > c.max_retries

\* Mutant of Exhausted: gives up one attempt early.
ExhaustedEarly(a, c) == a >= c.max_retries - 1

\* "if attempt == max_retries": the attempt that just failed was the last one.
Exhausted(a, c) == a = c.max_retries

\* Mutant of InRange: the loop runs over range(max_retries).
InRangeShort(a, c) == a < c.max_retries

\* The values "attempt" takes: range(max_retries + 1).
InRange(a, c) == a < c.max_retries + 1

\* The locals of a wrapper() frame that has not been entered.
IdleFrame ==
    [pc |-> "idle", attempt |-> 0, delay |-> 0, last_exception |-> NoException,
     outcome |-> [kind |-> "none"], log |-> <<>>]

\* Mutant of Invoke: "delay" lives in the decorator's scope and is shared by
\* all invocations instead of being a local of wrapper().
InvokeKeepsDelay ==
    /\ pc \in {"idle", "returned", "raised"}
    /\ invocations < MaxInvocations
    /\ invocations' = invocations + 1
    /\ prev' = [attempt |-> attempt, delay |-> delay, calls |-> NumCalls(log)]
    /\ delay' = IF invocations = 0 THEN cfg.initial_delay ELSE delay
    /\ last_exception' = NoException
    /\ attempt' = 0
    /\ log' = <<>>
    /\ IF InRange(0, cfg)
         THEN /\ pc' = "call"
              /\ outcome' = [kind |-> "running"]
         ELSE \* empty range: the loop body never runs, last_exception is None
              /\ pc' = "returned"
              /\ outcome' = [kind |-> "return", val |-> "None"]
    /\ UNCHANGED <<cfg, parked>>

\* wrapper() is entered: locals are initialised and the loop starts.
Invoke ==
    /\ pc \in {"idle", "returned", "raised"}
    /\ invocations < MaxInvocations
    /\ invocations' = invocations + 1
    /\ prev' = [attempt |-> attempt, delay |-> delay, calls |-> NumCalls(log)]
    /\ delay' = cfg.initial_delay
    /\ last_exception' = NoException
    /\ attempt' = 0
    /\ log' = <<>>
    /\ IF InRange(0, cfg)
         THEN /\ pc' = "call"
              /\ outcome' = [kind |-> "running"]
         ELSE \* empty range: the loop body never runs, last_exception is None
              /\ pc' = "returned"
              /\ outcome' = [kind |-> "return", val |-> "None"]
    /\ UNCHANGED <<cfg, parked>>

\* Mutant of CallReturns: the wrapper calls func but drops its value.
CallReturnsDropsValue(v) ==
    /\ pc = "call"
    /\ log' = Append(log, [ev |-> "return", val |-> v, cls |-> "None", id |-> NumCalls(log) + 1, d |-> 0])
    /\ outcome' = [kind |-> "return", val |-> "None"]
    /\ pc' = "returned"
    /\ UNCHANGED <<cfg, attempt, delay, last_exception, invocations, prev, parked>>

\* "return func(*args, **kwargs)" and func returns v.
CallReturns(v) ==
    /\ pc = "call"
    /\ log' = Append(log, [ev |-> "return", val |-> v, cls |-> "None", id |-> NumCalls(log) + 1, d |-> 0])
    /\ outcome' = [kind |-> "return", val |-> v]
    /\ pc' = "returned"
    /\ UNCHANGED <<cfg, attempt, delay, last_exception, invocations, prev, parked>>

\* func raises an exception of class c; the except clause decides.
CallRaises(c) ==
    /\ pc = "call"
    /\ LET e == [cls |-> c, id |-> NumCalls(log) + 1] IN
       /\ log' = Append(log, [ev |-> "raise", val |-> "None", cls |-> c, id |-> e.id, d |-> 0])
       /\ IF ~Catches(cfg.exceptions, e)
            THEN /\ outcome' = [kind |-> "raise", exc |-> e]
                 /\ pc' = "raised"
                 /\ UNCHANGED last_exception
            ELSE /\ last_exception' = e
                 /\ IF Exhausted(attempt, cfg)
                      THEN /\ outcome' = [kind |-> "raise", exc |-> e]
                           /\ pc' = "raised"
                      ELSE /\ pc' = "sleep"
                           /\ UNCHANGED outcome
    /\ UNCHANGED <<cfg, attempt, delay, invocations, prev, parked>>

\* "time.sleep(delay)", the delay update and the next loop iteration.
Sleep ==
    /\ pc = "sleep"
    /\ log' = Append(log, [ev |-> "sleep", val |-> "None", cls |-> "None", id |-> 0, d |-> delay])
    /\ delay' = NextDelay(delay, cfg)
    /\ attempt' = attempt + 1
    /\ IF InRange(attempt + 1, cfg)
         THEN /\ pc' = "call"
              /\ UNCHANGED outcome
         ELSE \* the loop is over: "if last_exception: raise last_exception"
              /\ pc' = "raised"
              /\ outcome' = [kind |-> "raise", exc |-> last_exception]
    /\ UNCHANGED <<cfg, last_exception, invocations, prev, parked>>

\* Mutant of Switch: "delay" is one cell in the decorator's scope, which
\* every frame of wrapper() reads and writes.
SwitchSharesDelay ==
    /\ pc' = parked.pc
    /\ attempt' = parked.attempt
    /\ delay' = delay
    /\ last_exception' = parked.last_exception
    /\ outcome' = parked.outcome
    /\ log' = parked.log
    /\ parked' = [pc |-> pc, attempt |-> attempt, delay |-> delay,
                  last_exception |-> last_exception, outcome |-> outcome, log |-> log]
    /\ UNCHANGED <<cfg, invocations, prev>>

\* Two invocations of the same wrapped function are in progress at once (two
\* threads, or the function calling itself through the wrapper): each call of
\* wrapper() has its own frame with its own delay, last_exception and attempt.
\* Control passes from the frame that is running to the other one, which may
\* not have been entered yet.
Switch ==
    /\ pc' = parked.pc
    /\ attempt' = parked.attempt
    /\ delay' = parked.delay
    /\ last_exception' = parked.last_exception
    /\ outcome' = parked.outcome
    /\ log' = parked.log
    /\ parked' = [pc |-> pc, attempt |-> attempt, delay |-> delay,
                  last_exception |-> last_exception, outcome |-> outcome, log |-> log]
    /\ UNCHANGED <<cfg, invocations, prev>>

----------------------------------------------------------------------------
(* Specification of the retry wrapper *)

\* The default arguments of retry_with_backoff, used where the wrapper is not exercised.
DefaultConfig ==
    [max_retries |-> 3, initial_delay |-> 1, max_delay |-> 60,
     exponential_base |-> 2, exceptions |-> DefaultExceptions]

\* Threads that may call into one RateLimiter instance; the single-threaded
\* specification runs thread 1 only.
Threads == {1, 2}
MainThread == {1}

\* The components a specification does not exercise stay as constructed.
InitCore ==
    /\ dec = [pc |-> "idle", runs |-> <<>>]
    /\ hlog = <<>>
    /\ gen = [pc |-> "idle", n |-> 0, fn |-> "none", topic |-> "", keywords |-> <<>>,
              word_count |-> 0, calls |-> 0, out |-> [kind |-> "none"]]

InitRl == rl = [phase |-> "none", wake |-> 0, attempts |-> <<>>]

\* LinorosoAutomation.__init__: "self.execution_log = []"; no log file yet.
InitElog == elog = [exists |-> FALSE, corrupt |-> FALSE, initial |-> <<>>, file |-> <<>>,
                    mem |-> <<>>, calls |-> <<>>]

InitDaily ==
    daily = [pc |-> "idle", topic |-> 0, social |-> 0, platform |-> 0,
             blog_failures |-> 0, generated_content |-> <<>>, logged |-> <<>>,
             out |-> [kind |-> "none"]]

\* Nothing analysed yet; the product is the one of test_analyze_product_perfect_score.
InitOpt ==
    opt = [analysed |-> FALSE,
           product |-> [title_length |-> 63, keyword_in_title |-> TRUE, description_length |-> 407,
                        has_html |-> TRUE, tag_count |-> 6, price |-> 30, image_count |-> 4],
           analysis |-> [score |-> 0, issues |-> <<>>, title_length |-> 0,
                         description_length |-> 0, tag_count |-> 0, image_count |-> 0]]

InitDb == db = [pc |-> "idle", conn |-> FALSE, calls |-> <<>>, body |-> "none",
                pending |-> "none", uses |-> <<>>]

InitApp ==
    /\ InitRl
    /\ InitElog
    /\ InitDaily
    /\ InitOpt
    /\ InitDb

InitAux ==
    /\ InitCore
    /\ InitApp

InitLimiterIdle ==
    /\ clock = 0
    /\ lim = [state |-> "none", requests_per_minute |-> 0, min_interval |-> Whole(0), last_request_time |-> 0]
    /\ tpc = [t \in Threads |-> "idle"]
    /\ current_time = [t \in Threads |-> 0]
    /\ sleep_time = [t \in Threads |-> Whole(0)]
    /\ wake = [t \in Threads |-> Whole(0)]
    /\ seen = [t \in Threads |-> 0]
    /\ stamp = [t \in Threads |-> 0]
    /\ hist = <<>>

InitRetry ==
    /\ cfg \in Configs
    /\ pc = "idle"
    /\ attempt = 0
    /\ delay = 0
    /\ last_exception = NoException
    /\ outcome = [kind |-> "none"]
    /\ log = <<>>
    /\ invocations = 0
    /\ prev = [attempt |-> 0, delay |-> 0, calls |-> 0]
    /\ parked = IdleFrame
    /\ InitLimiterIdle
    /\ InitAux

NextRetry ==
    \/ Invoke /\ UNCHANGED <<appVars, limVars, auxVars>>
    \/ \E v \in ReturnValues : CallReturns(v) /\ UNCHANGED <<appVars, limVars, auxVars>>
    \/ \E c \in RaisedClasses : CallRaises(c) /\ UNCHANGED <<appVars, limVars, auxVars>>
    \/ Sleep /\ UNCHANGED <<appVars, limVars, auxVars>>

SpecRetry == InitRetry /\ [][NextRetry]_vars

\* Interleaved invocations: the configurations with the default exceptions
\* and the largest cap on the delay, and what the function does (return, fail
\* with an exception that is retried, fail with one that is not).
InterleavedConfigs ==
    {c \in Configs : /\ c.exceptions = DefaultExceptions
                     /\ c.max_delay = MaxDelayCap}
InterleavedReturns == {"ok"}
InterleavedRaises == {"RateLimitError", "KeyboardInterrupt"}

InitInterleaved ==
    /\ InitRetry
    /\ cfg \in InterleavedConfigs

NextInterleaved ==
    \/ Invoke /\ UNCHANGED <<appVars, limVars, auxVars>>
    \/ \E v \in InterleavedReturns : CallReturns(v) /\ UNCHANGED <<appVars, limVars, auxVars>>
    \/ \E c \in InterleavedRaises : CallRaises(c) /\ UNCHANGED <<appVars, limVars, auxVars>>
    \/ Sleep /\ UNCHANGED <<appVars, limVars, auxVars>>
    \/ Switch /\ UNCHANGED <<appVars, limVars, auxVars>>

SpecInterleaved == InitInterleaved /\ [][NextInterleaved]_vars

----------------------------------------------------------------------------
(* RateLimiter *)

\* requests_per_minute: the default (50), the value of the tests (120),
\* divisors of 60, zero and a negative value.
RpmValues == {-60, 0, 20, 30, 50, 60, 120}

\* Mutant of MinInterval: the quotient taken the wrong way round.
MinIntervalInverted(r) == Frac(r, 60)

\* "self.min_interval = 60.0 / requests_per_minute"
MinInterval(r) == Frac(60, r)

\* RateLimiter.__init__: division by zero raises out of the constructor.
Construct(r) ==
    /\ lim.state = "none"
    /\ IF r = 0
         THEN lim' = [lim EXCEPT !.state = "error"]
         ELSE lim' = [state |-> "ready", requests_per_minute |-> r,
                      min_interval |-> MinInterval(r), last_request_time |-> 0]
    /\ UNCHANGED <<clock, tpc, current_time, sleep_time, wake, seen, stamp, hist>>

\* time passes
Tick ==
    /\ clock < MaxClock
    /\ clock' = clock + 1
    /\ UNCHANGED <<lim, tpc, current_time, sleep_time, wake, seen, stamp, hist>>

\* wait_if_needed, lines 181-186, of a thread whose line 180 read ct: the
\* baseline is read, and when less than min_interval separates the two the
\* thread starts to sleep for the remainder.
Decide(t, ct) ==
    /\ seen' = [seen EXCEPT ![t] = lim.last_request_time]
    /\ LET time_since_last_request == Whole(ct - lim.last_request_time) IN
       IF FracLess(time_since_last_request, lim.min_interval)
         THEN /\ sleep_time' = [sleep_time EXCEPT
                                   ![t] = FracSub(lim.min_interval, time_since_last_request)]
              /\ wake' = [wake EXCEPT
                             ![t] = FracAdd(Whole(clock),
                                            FracSub(lim.min_interval, time_since_last_request))]
              /\ tpc' = [tpc EXCEPT ![t] = "sleeping"]
         ELSE /\ sleep_time' = [sleep_time EXCEPT ![t] = Whole(0)]
              /\ wake' = [wake EXCEPT ![t] = Whole(clock)]
              /\ tpc' = [tpc EXCEPT ![t] = "record"]

\* wait_if_needed, lines 180-186, run by the only thread that uses the
\* limiter: the clock and the baseline are read and the sleep is decided.
Enter(t) ==
    /\ lim.state = "ready"
    /\ tpc[t] = "idle"
    /\ Len(hist) < MaxLimiterCalls
    /\ current_time' = [current_time EXCEPT ![t] = clock]
    /\ Decide(t, clock)
    /\ UNCHANGED <<clock, lim, stamp, hist>>

\* Mutant of SleepDone: the sleep returns without the time having passed.
SleepDoneEarly(t) ==
    /\ tpc[t] = "sleeping"
    /\ tpc' = [tpc EXCEPT ![t] = "record"]
    /\ UNCHANGED <<clock, lim, current_time, sleep_time, wake, seen, stamp, hist>>

\* time.sleep(sleep_time) returns once at least sleep_time seconds have passed.
SleepDone(t) ==
    /\ tpc[t] = "sleeping"
    /\ FracLeq(wake[t], Whole(clock))
    /\ tpc' = [tpc EXCEPT ![t] = "record"]
    /\ UNCHANGED <<clock, lim, current_time, sleep_time, wake, seen, stamp, hist>>

\* The end of wait_if_needed: "stored" becomes self.last_request_time and the
\* call returns, "now" being the reading of time.time() at line 188.
Finish(t, now, stored) ==
    /\ lim' = [lim EXCEPT !.last_request_time = stored]
    /\ hist' = Append(hist, [thread |-> t, entry |-> current_time[t],
                             slept |-> sleep_time[t], ret |-> now, seen |-> seen[t]])
    /\ tpc' = [tpc EXCEPT ![t] = "idle"]
    \* the call is over: its locals are gone
    /\ current_time' = [current_time EXCEPT ![t] = 0]
    /\ sleep_time' = [sleep_time EXCEPT ![t] = Whole(0)]
    /\ wake' = [wake EXCEPT ![t] = Whole(0)]
    /\ seen' = [seen EXCEPT ![t] = 0]
    /\ stamp' = [stamp EXCEPT ![t] = 0]
    /\ UNCHANGED clock

\* Mutant of Record: the baseline is the time read on entry, not a fresh reading.
RecordEntryTime(t) ==
    /\ tpc[t] = "record"
    /\ Finish(t, clock, current_time[t])

\* "self.last_request_time = time.time()" and return, run by the only thread
\* that uses the limiter.
Record(t) ==
    /\ tpc[t] = "record"
    /\ Finish(t, clock, clock)

InitRetryIdle ==
    /\ cfg = DefaultConfig
    /\ pc = "idle"
    /\ attempt = 0
    /\ delay = 0
    /\ last_exception = NoException
    /\ outcome = [kind |-> "none"]
    /\ log = <<>>
    /\ invocations = 0
    /\ prev = [attempt |-> 0, delay |-> 0, calls |-> 0]
    /\ parked = IdleFrame

InitLimiter ==
    /\ InitRetryIdle
    /\ InitAux
    /\ clock \in 0 .. StartClockMax
    /\ lim = [state |-> "none", requests_per_minute |-> 0, min_interval |-> Whole(0), last_request_time |-> 0]
    /\ tpc = [t \in Threads |-> "idle"]
    /\ current_time = [t \in Threads |-> 0]
    /\ sleep_time = [t \in Threads |-> Whole(0)]
    /\ wake = [t \in Threads |-> Whole(0)]
    /\ seen = [t \in Threads |-> 0]
    /\ stamp = [t \in Threads |-> 0]
    /\ hist = <<>>

NextLimiter ==
    \/ \E r \in RpmValues : Construct(r) /\ UNCHANGED <<appVars, retryVars, auxVars>>
    \/ Tick /\ UNCHANGED <<appVars, retryVars, auxVars>>
    \/ \E t \in MainThread : Enter(t) /\ UNCHANGED <<appVars, retryVars, auxVars>>
    \/ \E t \in MainThread : SleepDone(t) /\ UNCHANGED <<appVars, retryVars, auxVars>>
    \/ \E t \in MainThread : Record(t) /\ UNCHANGED <<appVars, retryVars, auxVars>>

SpecLimiter == InitLimiter /\ [][NextLimiter]_vars

----------------------------------------------------------------------------
(* RateLimiter shared by two threads, no lock around wait_if_needed.       *)
(* A thread can be preempted between any two accesses of the shared state: *)
(* between reading the clock and reading last_request_time, and between    *)
(* evaluating time.time() and storing it.                                   *)

\* Threads that are inside wait_if_needed.
InFlight == {u \in Threads : tpc[u] # "idle"}

\* "current_time = time.time()" (line 180); the thread can be preempted
\* before it reads self.last_request_time.
ReadClock(t) ==
    /\ lim.state = "ready"
    /\ tpc[t] = "idle"
    /\ current_time' = [current_time EXCEPT ![t] = clock]
    /\ tpc' = [tpc EXCEPT ![t] = "entered"]
    /\ UNCHANGED <<clock, lim, sleep_time, wake, seen, stamp, hist>>

\* Mutant of EnterAny: a lock held for the whole of wait_if_needed.
EnterLocked(t) ==
    /\ \A u \in Threads : tpc[u] = "idle"
    /\ Len(hist) + Cardinality(InFlight) < MaxRaceCalls
    /\ ReadClock(t)

\* A thread calls wait_if_needed; nothing in the method waits for other threads.
EnterAny(t) ==
    /\ Len(hist) + Cardinality(InFlight) < MaxRaceCalls
    /\ ReadClock(t)

\* Lines 181-186: the baseline is read, whatever another thread has stored
\* in it since this thread read the clock.
CheckBaseline(t) ==
    /\ tpc[t] = "entered"
    /\ Decide(t, current_time[t])
    /\ UNCHANGED <<clock, lim, current_time, stamp, hist>>

\* The right-hand side of line 188, "time.time()", is evaluated; the thread
\* can be preempted before the value is stored.
ReadStamp(t) ==
    /\ tpc[t] = "record"
    /\ stamp' = [stamp EXCEPT ![t] = clock]
    /\ tpc' = [tpc EXCEPT ![t] = "store"]
    /\ UNCHANGED <<clock, lim, current_time, sleep_time, wake, seen, hist>>

\* The assignment of line 188: the value read before is stored, whatever
\* another thread has stored in the meantime.
Store(t) ==
    /\ tpc[t] = "store"
    /\ Finish(t, stamp[t], stamp[t])

\* Rates of the limiter the two threads share.
RaceRates == {0, 30, 50, 60}

\* time passes while the two threads run
RaceTick ==
    /\ clock < MaxRaceClock
    /\ Tick

NextRace ==
    \/ \E r \in RaceRates : Construct(r) /\ UNCHANGED <<appVars, retryVars, auxVars>>
    \/ RaceTick /\ UNCHANGED <<appVars, retryVars, auxVars>>
    \/ \E t \in Threads : EnterAny(t) /\ UNCHANGED <<appVars, retryVars, auxVars>>
    \/ \E t \in Threads : CheckBaseline(t) /\ UNCHANGED <<appVars, retryVars, auxVars>>
    \/ \E t \in Threads : SleepDone(t) /\ UNCHANGED <<appVars, retryVars, auxVars>>
    \/ \E t \in Threads : ReadStamp(t) /\ UNCHANGED <<appVars, retryVars, auxVars>>
    \/ \E t \in Threads : Store(t) /\ UNCHANGED <<appVars, retryVars, auxVars>>

SpecRace == InitLimiter /\ [][NextRace]_vars

----------------------------------------------------------------------------
(* RateLimiter.__call__: the limiter used as a decorator *)

\* What one run of the decorated callable can do.
DecResults ==
    {[kind |-> "return", val |-> "ok"],
     [kind |-> "raise", exc |-> [cls |-> "ValueError", id |-> 1]]}

\* wrapper() is entered and calls self.wait_if_needed().
DecInvoke ==
    /\ dec.pc = "idle"
    /\ Enter(1)
    /\ dec' = [dec EXCEPT !.pc = "wait"]

\* wait_if_needed is sleeping on behalf of wrapper().
DecSleepDone ==
    /\ dec.pc = "wait"
    /\ SleepDone(1)
    /\ UNCHANGED dec

\* Mutant of DecRun: the callable is run without the wait having completed.
DecRunSkipsWait(res) ==
    /\ dec.pc = "wait"
    /\ tpc[1] \in {"sleeping", "record"}
    /\ tpc' = [tpc EXCEPT ![1] = "idle"]
    /\ dec' = [pc |-> "idle",
               runs |-> Append(dec.runs, [start |-> clock, waits |-> Len(hist),
                                          res |-> res, out |-> res])]
    /\ UNCHANGED <<clock, lim, current_time, sleep_time, wake, seen, stamp, hist>>

\* Mutant of DecRun: a run that raises gives its slot back, the limiter's
\* baseline returns to what it was when the wait began.
DecRunFailureFreesSlot(res) ==
    /\ dec.pc = "wait"
    /\ tpc[1] = "record"
    /\ Finish(1, clock, IF res.kind = "raise" THEN seen[1] ELSE clock)
    /\ dec' = [pc |-> "idle",
               runs |-> Append(dec.runs, [start |-> clock, waits |-> Len(hist'),
                                          res |-> res, out |-> res])]

\* wait_if_needed returns and "return func(*args, **kwargs)" runs the callable,
\* whose result or exception is what wrapper() hands to its caller.
DecRun(res) ==
    /\ dec.pc = "wait"
    /\ Record(1)
    /\ dec' = [pc |-> "idle",
               runs |-> Append(dec.runs, [start |-> clock, waits |-> Len(hist'),
                                          res |-> res, out |-> res])]

NextDecorator ==
    \/ \E r \in RpmValues : Construct(r) /\ UNCHANGED <<appVars, retryVars, auxVars>>
    \/ Tick /\ UNCHANGED <<appVars, retryVars, auxVars>>
    \/ DecInvoke /\ UNCHANGED <<appVars, retryVars, hlog, gen>>
    \/ DecSleepDone /\ UNCHANGED <<appVars, retryVars, hlog, gen>>
    \/ \E res \in DecResults : DecRun(res) /\ UNCHANGED <<appVars, retryVars, hlog, gen>>

SpecDecorator == InitLimiter /\ [][NextDecorator]_vars

----------------------------------------------------------------------------
(* handle_api_error and validate_input *)

\* What the callable wrapped by handle_api_error can do: return a value or
\* raise an exception object (obj 1) of some class with some message.
HandlerRaises ==
    {"anthropic.APIError", "anthropic.RateLimitError", "anthropic.APIConnectionError",
     "anthropic.AuthenticationError", "ValidationError", "APIError", "RateLimitError",
     "ValueError", "ZeroDivisionError", "KeyboardInterrupt"}

HandlerInputs ==
    {[kind |-> "return", val |-> v] : v \in ReturnValues}
      \cup {[kind |-> "raise", cls |-> c, obj |-> 1, msg |-> <<"boom">>, cause |-> 0] : c \in HandlerRaises}

\* "raise K(f'{prefix}{e}') from e": a new exception object whose cause is e.
Wrapped(k, prefix, e) ==
    [kind |-> "raise", cls |-> k, obj |-> e.obj + 1, msg |-> <<prefix>> \o e.msg, cause |-> e.obj]

\* Mutant of HandleApiError: every clause logs and re-raises what it caught.
HandleApiErrorReraises(x) == x

\* Mutant of HandleApiError: the last clause converts what it does not know.
HandleApiErrorConvertsAll(x) ==
    IF x.kind = "return" THEN x
    ELSE IF IsSubclass(x.cls, "Exception") THEN Wrapped("APIError", "API call failed: ", x)
    ELSE x

\* handle_api_error.wrapper: the except clauses are tried in the order written.
HandleApiError(x) ==
    IF x.kind = "return" THEN x
    ELSE IF IsSubclass(x.cls, "anthropic.APIError") THEN Wrapped("APIError", "API call failed: ", x)
    ELSE IF IsSubclass(x.cls, "anthropic.RateLimitError") THEN Wrapped("RateLimitError", "Rate limit exceeded: ", x)
    ELSE IF IsSubclass(x.cls, "anthropic.APIConnectionError") THEN Wrapped("APIError", "Failed to connect to API: ", x)
    ELSE IF IsSubclass(x.cls, "anthropic.AuthenticationError") THEN Wrapped("APIError", "Authentication failed: ", x)
    ELSE IF IsSubclass(x.cls, "Exception") THEN x    \* logged, then a bare raise
    ELSE x                                           \* not caught at all

\* Number of logger.error calls one application of handle_api_error makes.
HandleApiErrorLogs(x) ==
    IF x.kind = "raise" /\ IsSubclass(x.cls, "Exception") THEN 1 ELSE 0

ValidateMessages == {"bad input", "unused"}

\* Mutant of ValidateInput: the caller's message is replaced by a fixed one.
ValidateInputFixedMessage(condition, message) ==
    IF ~condition
      THEN [kind |-> "raise", cls |-> "ValidationError", obj |-> 1, msg |-> <<"Validation failed">>, cause |-> 0]
      ELSE [kind |-> "return", val |-> "None"]

\* validate_input(condition, message)
ValidateInput(condition, message) ==
    IF ~condition
      THEN [kind |-> "raise", cls |-> "ValidationError", obj |-> 1, msg |-> <<message>>, cause |-> 0]
      ELSE [kind |-> "return", val |-> "None"]

\* Number of logger.error calls validate_input makes.
ValidateInputLogs(condition) == IF ~condition THEN 1 ELSE 0

\* A callable that behaves as x is called once wrapped by handle_api_error
\* and once wrapped by it twice.
HandleCall(x) ==
    /\ Len(hlog) < MaxHandlerCalls
    /\ hlog' = Append(hlog, [op |-> "handle", in |-> x,
                             once |-> HandleApiError(x),
                             twice |-> HandleApiError(HandleApiError(x)),
                             errors |-> HandleApiErrorLogs(x)])
    /\ UNCHANGED <<dec, gen>>

ValidateCall(condition, message) ==
    /\ Len(hlog) < MaxHandlerCalls
    /\ hlog' = Append(hlog, [op |-> "validate", condition |-> condition, message |-> message,
                             out |-> ValidateInput(condition, message),
                             errors |-> ValidateInputLogs(condition)])
    /\ UNCHANGED <<dec, gen>>

\* Arguments for safe_execute's "default": not given, or a value of the caller.
SafeDefaultArgs == {[given |-> FALSE, val |-> "None"], [given |-> TRUE, val |-> "default"]}

\* "default=None" in the signature of safe_execute.
SafeDefault(d) == IF d.given THEN d.val ELSE "None"

\* Mutant of SafeExecute: the caller's default is ignored on failure.
SafeExecuteDropsDefault(x, d, log_error) ==
    IF x.kind = "return" THEN x
    ELSE IF IsSubclass(x.cls, "Exception") THEN [kind |-> "return", val |-> "None"]
    ELSE x

\* safe_execute(func, default, log_error) where func behaves as x:
\* "try: return func()  except Exception as e: ... return default".
SafeExecute(x, d, log_error) ==
    IF x.kind = "return" THEN x
    ELSE IF IsSubclass(x.cls, "Exception") THEN [kind |-> "return", val |-> SafeDefault(d)]
    ELSE x

\* Number of logger.error calls safe_execute makes.
SafeExecuteLogs(x, log_error) ==
    IF x.kind = "raise" /\ IsSubclass(x.cls, "Exception") /\ log_error THEN 1 ELSE 0

SafeCall(x, d, log_error) ==
    /\ Len(hlog) < MaxHandlerCalls
    /\ hlog' = Append(hlog, [op |-> "safe", in |-> x, default |-> d, log_error |-> log_error,
                             out |-> SafeExecute(x, d, log_error),
                             errors |-> SafeExecuteLogs(x, log_error)])
    /\ UNCHANGED <<dec, gen>>

InitHandlers ==
    /\ InitRetryIdle
    /\ InitLimiterIdle
    /\ InitAux

NextHandlers ==
    \/ \E x \in HandlerInputs : HandleCall(x) /\ UNCHANGED <<appVars, retryVars, limVars>>
    \/ \E c \in BOOLEAN, msg \in ValidateMessages : ValidateCall(c, msg) /\ UNCHANGED <<appVars, retryVars, limVars>>
    \/ \E x \in HandlerInputs, d \in SafeDefaultArgs, l \in BOOLEAN :
          SafeCall(x, d, l) /\ UNCHANGED <<appVars, retryVars, limVars>>

SpecHandlers == InitHandlers /\ [][NextHandlers]_vars

----------------------------------------------------------------------------
(* ContentGenerator.generate_blog_post / generate_product_description /    *)
(* generate_social_post                                                    *)

DEFAULT_MIN_WORD_COUNT == 800
DEFAULT_PRODUCT_WORD_COUNT == 300
SocialWordCount == 150

GenFunctions == {"blog_post", "product_description", "social_media"}
Topics == {"", "knife care"}
KeywordLists == {<<>>, <<"kitchen knives">>}
\* word_count arguments of generate_blog_post; given = FALSE stands for None
WordCountArgs ==
    {[given |-> FALSE, n |-> 0], [given |-> TRUE, n |-> -5],
     [given |-> TRUE, n |-> 0], [given |-> TRUE, n |-> 1200]}

\* The keys each prompt asks the JSON answer to hold.
BlogKeys == {"title", "content", "meta_description", "suggested_internal_links",
             "primary_keyword", "secondary_keywords"}
ProductKeys == {"headline", "short_description", "long_description",
                "features_and_benefits", "meta_description", "bullet_points",
                "suggested_tags"}
SocialKeys == {"caption", "hashtags", "call_to_action", "image_suggestion", "posting_tips"}

\* The keys each method subscripts in the parsed answer
\* (secondary_keywords is read with .get and may be missing).
RequiredKeys(fn) ==
    CASE fn = "blog_post" -> {"title", "content", "meta_description"}
      [] fn = "product_description" ->
            {"headline", "short_description", "long_description",
             "features_and_benefits", "meta_description"}
      [] OTHER -> {}

\* What client.messages.create can do: raise, or return a text that is no
\* JSON, a JSON array, or a JSON object holding some keys (none, or those
\* one of the prompts asks for) with values of the types asked.
LlmResponses ==
    {[kind |-> "raise", cls |-> "anthropic.RateLimitError"],
     [kind |-> "raise", cls |-> "anthropic.APIConnectionError"],
     [kind |-> "text", json |-> "invalid"],
     [kind |-> "text", json |-> "array"]}
      \cup {[kind |-> "text", json |-> "object", keys |-> k] :
                k \in {{}, BlogKeys, ProductKeys, SocialKeys}}

\* What the method does with the text of the answer: json.loads, then the
\* subscripts that build the GeneratedContent (blog post, product
\* description) or the two item assignments on the parsed value (social post,
\* which returns that dict).
GenParse(fn, resp) ==
    CASE resp.json = "invalid" -> [kind |-> "raise", cls |-> "JSONDecodeError"]
      [] resp.json = "array" -> [kind |-> "raise", cls |-> "TypeError"]
      [] fn = "social_media" ->
            [kind |-> "return", type |-> "dict",
             keys |-> resp.keys \cup {"platform", "created_at"}]
      [] ~(RequiredKeys(fn) \subseteq resp.keys) -> [kind |-> "raise", cls |-> "KeyError"]
      [] OTHER -> [kind |-> "return", type |-> "GeneratedContent", content_type |-> fn]

\* The word_count of the ContentRequest each method builds.
RequestWordCount(fn, wc) ==
    CASE fn = "blog_post" -> IF wc.given THEN wc.n ELSE DEFAULT_MIN_WORD_COUNT
      [] fn = "product_description" -> DEFAULT_PRODUCT_WORD_COUNT
      [] OTHER -> SocialWordCount

\* The method is entered: the ContentRequest is built from the arguments as given.
GenStart(fn, topic, keywords, wc) ==
    /\ gen.pc \in {"idle", "done"}
    /\ gen.n < MaxGenerations
    /\ fn # "blog_post" => wc = [given |-> FALSE, n |-> 0]
    /\ gen' = [pc |-> "create", n |-> gen.n + 1, fn |-> fn, topic |-> topic,
               keywords |-> keywords, word_count |-> RequestWordCount(fn, wc),
               calls |-> 0, out |-> [kind |-> "running"]]
    /\ UNCHANGED <<dec, hlog>>

\* "message = self.client.messages.create(...)", the parsing of its text and
\* the except clause that logs and re-raises.
GenCreate(resp) ==
    /\ gen.pc = "create"
    /\ gen' = [gen EXCEPT
                 !.pc = "done",
                 !.calls = gen.calls + 1,
                 !.out = IF resp.kind = "raise"
                           THEN [kind |-> "raise", cls |-> resp.cls]
                           ELSE GenParse(gen.fn, resp)]
    /\ UNCHANGED <<dec, hlog>>

NextGenerate ==
    \/ \E fn \in GenFunctions, topic \in Topics, keywords \in KeywordLists, wc \in WordCountArgs :
          GenStart(fn, topic, keywords, wc) /\ UNCHANGED <<appVars, retryVars, limVars>>
    \/ \E resp \in LlmResponses : GenCreate(resp) /\ UNCHANGED <<appVars, retryVars, limVars>>

SpecGenerate == InitHandlers /\ [][NextGenerate]_vars

----------------------------------------------------------------------------
(* retry_with_backoff around a callable decorated with a RateLimiter *)
(*                                                                         *)
(*     @retry_with_backoff(...)                                            *)
(*     @limiter                                                            *)
(*     def func(): ...                                                     *)
(*                                                                         *)
(* Each call the retry wrapper makes is a call of RateLimiter's wrapper(), *)
(* and time.sleep(delay) of the retry wrapper takes time on the same clock.*)

\* Decorator arguments exercised in the composition.
ComposedConfigs ==
    {c \in Configs : /\ c.max_retries = 2
                     /\ c.exceptions = DefaultExceptions
                     /\ c.max_delay \in {1, MaxDelayCap}}

\* What the function does in the composition: return, fail with an exception
\* that is retried, or with one that is not.
ComposedReturns == {"ok"}
ComposedRaises == {"RateLimitError", "KeyboardInterrupt"}

\* Rates of the limiter in the composition.
ComposedRates == RpmValues \ {0}

\* The retry wrapper is entered.
RLInvoke ==
    /\ invocations = 0
    /\ Invoke
    /\ UNCHANGED <<limVars, rl>>

\* "return func(*args, **kwargs)" of the retry wrapper enters RateLimiter's
\* wrapper(), which calls self.wait_if_needed().
RLEnter ==
    /\ pc = "call"
    /\ rl.phase = "none"
    /\ Enter(1)
    /\ rl' = [rl EXCEPT !.phase = "wait"]
    /\ UNCHANGED retryVars

\* wait_if_needed is sleeping.
RLSleepDone ==
    /\ rl.phase = "wait"
    /\ SleepDone(1)
    /\ UNCHANGED <<retryVars, rl>>

\* wait_if_needed returns, the function runs and returns v.
RLRunReturns(v) ==
    /\ rl.phase = "wait"
    /\ Record(1)
    /\ CallReturns(v)
    /\ rl' = [rl EXCEPT !.phase = "none",
                        !.attempts = Append(rl.attempts, [start |-> clock, waits |-> Len(hist')])]

\* wait_if_needed returns, the function runs and raises an exception of class c.
RLRunRaises(c) ==
    /\ rl.phase = "wait"
    /\ Record(1)
    /\ CallRaises(c)
    /\ rl' = [rl EXCEPT !.phase = "none",
                        !.attempts = Append(rl.attempts, [start |-> clock, waits |-> Len(hist')])]

\* "time.sleep(delay)" of the retry wrapper begins.
RLBackoffStart ==
    /\ pc = "sleep"
    /\ rl.phase = "none"
    /\ rl' = [rl EXCEPT !.phase = "backoff", !.wake = clock + delay]
    /\ UNCHANGED <<retryVars, limVars>>

\* Mutant of RLBackoffDone: the backoff takes no time.
RLBackoffDoneEarly ==
    /\ rl.phase = "backoff"
    /\ Sleep
    /\ rl' = [rl EXCEPT !.phase = "none", !.wake = 0]
    /\ UNCHANGED limVars

\* "time.sleep(delay)" returns once the delay has passed; the loop goes on.
RLBackoffDone ==
    /\ rl.phase = "backoff"
    /\ clock >= rl.wake
    /\ Sleep
    /\ rl' = [rl EXCEPT !.phase = "none", !.wake = 0]
    /\ UNCHANGED limVars

InitComposed ==
    /\ cfg \in ComposedConfigs
    /\ pc = "idle"
    /\ attempt = 0
    /\ delay = 0
    /\ last_exception = NoException
    /\ outcome = [kind |-> "none"]
    /\ log = <<>>
    /\ invocations = 0
    /\ prev = [attempt |-> 0, delay |-> 0, calls |-> 0]
    /\ parked = IdleFrame
    /\ clock \in 0 .. StartClockMax
    /\ \E r \in ComposedRates :
          lim = [state |-> "ready", requests_per_minute |-> r,
                 min_interval |-> MinInterval(r), last_request_time |-> 0]
    /\ tpc = [t \in Threads |-> "idle"]
    /\ current_time = [t \in Threads |-> 0]
    /\ sleep_time = [t \in Threads |-> Whole(0)]
    /\ wake = [t \in Threads |-> Whole(0)]
    /\ seen = [t \in Threads |-> 0]
    /\ stamp = [t \in Threads |-> 0]
    /\ hist = <<>>
    /\ InitAux

composedRest == <<auxVars, elog, daily, opt, db>>

NextComposed ==
    \/ Tick /\ UNCHANGED <<retryVars, rl, composedRest>>
    \/ RLInvoke /\ UNCHANGED composedRest
    \/ RLEnter /\ UNCHANGED composedRest
    \/ RLSleepDone /\ UNCHANGED composedRest
    \/ \E v \in ComposedReturns : RLRunReturns(v) /\ UNCHANGED composedRest
    \/ \E c \in ComposedRaises : RLRunRaises(c) /\ UNCHANGED composedRest
    \/ RLBackoffStart /\ UNCHANGED composedRest
    \/ RLBackoffDone /\ UNCHANGED composedRest

SpecComposed == InitComposed /\ [][NextComposed]_vars

----------------------------------------------------------------------------
(* LinorosoAutomation._log_execution (main.py) *)

MAX_LOG_ENTRIES == 1000
MaxLogCalls == 3

LogTasks == {"daily_content_generation", "weekly_seo_audit"}
LogDetails == {[generated_count |-> 0, content |-> <<>>],
               [generated_count |-> 1, content |-> <<"blog_post">>]}

\* The details each task logs: run_daily_content_generation the count and
\* list of what it generated, run_weekly_seo_audit the report it wrote.
TaskDetails(t) ==
    IF t = "daily_content_generation" THEN LogDetails
    ELSE {[report_path |-> "seo_report", total_clicks |-> 0, avg_ctr |-> 0]}

\* What the file system does for one call: every step works; mkdir or
\* open(log_file, 'r') raises an OSError; open(log_file, 'w') raises an OSError
\* (nothing is truncated); or json.dump raises after open(log_file, 'w') has
\* truncated the file.
LogResults == {"ok", "mkdir_raises", "open_raises", "dump_raises"}

\* Entries a log file found at start-up holds; entry i was written before entry i+1.
OldEntry(i) == [timestamp |-> i - 2 * MAX_LOG_ENTRIES, task |-> "old_task", details |-> "old"]

\* Sizes of the log file found at start-up (the test writes MAX_LOG_ENTRIES + 10).
ExistingLogSizes == {0, MAX_LOG_ENTRIES - 1, MAX_LOG_ENTRIES, MAX_LOG_ENTRIES + 10}

\* Mutant of LastEntries: "all_logs[:n]".
FirstEntries(s, n) == IF Len(s) <= n THEN s ELSE SubSeq(s, 1, n)

\* "all_logs[-n:]" for n > 0
LastEntries(s, n) == IF Len(s) <= n THEN s ELSE SubSeq(s, Len(s) - n + 1, Len(s))

\* How a call of _log_execution ends when the file system does res: json.load
\* raises JSONDecodeError on a file that holds no JSON document, before the
\* file is opened for writing.
LogOutcome(res) ==
    CASE res = "mkdir_raises" -> "OSError"
      [] elog.exists /\ elog.corrupt -> "JSONDecodeError"
      [] res = "ok" -> "return"
      [] OTHER -> "OSError"

\* _log_execution(task_name, details): the entry is appended to the list in
\* memory, the file is read if it exists, the entry appended, the list cut
\* and written back.  An error before open(log_file, 'w') leaves the file as
\* it was; an error of json.dump leaves the file that open(log_file, 'w')
\* truncated, which json.load cannot read afterwards.
LogExecution(task_name, details, res) ==
    /\ Len(elog.mem) < MaxLogCalls
    /\ LET log_entry == [timestamp |-> Len(elog.mem) + 1, task |-> task_name, details |-> details]
           all_logs == IF elog.exists THEN elog.file ELSE <<>>
           out == LogOutcome(res)
           truncated == res = "dump_raises" /\ out = "OSError"
       IN  elog' = [elog EXCEPT
                      !.mem = Append(elog.mem, log_entry),
                      !.exists = IF out = "return" \/ truncated THEN TRUE ELSE @,
                      !.corrupt = IF out = "return" THEN FALSE
                                  ELSE IF truncated THEN TRUE ELSE @,
                      !.file = IF out = "return"
                                 THEN LastEntries(Append(all_logs, log_entry), MAX_LOG_ENTRIES)
                                 ELSE IF truncated THEN <<>> ELSE @,
                      !.calls = Append(elog.calls, [task |-> task_name, details |-> details,
                                                    res |-> res, out |-> out])]

InitExecLog ==
    /\ InitRetryIdle
    /\ InitLimiterIdle
    /\ InitCore
    /\ InitRl /\ InitDaily /\ InitOpt /\ InitDb
    /\ \/ InitElog
       \/ \E n \in ExistingLogSizes :
             LET old == [i \in 1 .. n |-> OldEntry(i)] IN
             elog = [exists |-> TRUE, corrupt |-> FALSE, initial |-> old, file |-> old,
                     mem |-> <<>>, calls |-> <<>>]

NextExecLog ==
    \E t \in LogTasks, res \in LogResults : \E det \in TaskDetails(t) :
        LogExecution(t, det, res) /\ UNCHANGED <<retryVars, limVars, auxVars, rl, daily, opt, db>>

SpecExecLog == InitExecLog /\ [][NextExecLog]_vars

----------------------------------------------------------------------------
(* LinorosoAutomation.run_daily_content_generation (main.py) *)

\* "return topics[:1]" in _get_daily_topics; the three topics of
\* _get_social_topics, of which "social_topics[:3]" are used; the platforms.
NumDailyTopics == 1
NumSocialTopics == 3
Platforms == <<"instagram", "pinterest">>

\* What a step that calls the content generator or writes a file can do.
StepResults == {"ok", "generate_raises", "save_raises"}

\* The method is entered: topics are fetched, generated_content = [].
DailyStart ==
    /\ daily.pc = "idle"
    /\ daily' = [daily EXCEPT !.pc = "blog", !.topic = 1, !.out = [kind |-> "running"]]

\* One iteration of "for topic_data in topics": generate_blog_post and
\* save_content inside try/except Exception: log, continue.
DailyBlog(res) ==
    /\ daily.pc = "blog"
    /\ daily' = [daily EXCEPT
                   !.generated_content =
                       IF res = "ok" THEN Append(daily.generated_content, "blog_post")
                       ELSE daily.generated_content,
                   !.blog_failures = IF res = "ok" THEN @ ELSE @ + 1,
                   !.topic = @ + 1,
                   !.pc = IF daily.topic = NumDailyTopics THEN "social" ELSE "blog",
                   !.social = IF daily.topic = NumDailyTopics THEN 1 ELSE @,
                   !.platform = IF daily.topic = NumDailyTopics THEN 1 ELSE @]

\* One platform of one social topic: generate_social_post and
\* _save_social_post; an exception leaves the inner platform loop and goes on
\* with the next social topic.
DailySocial(res) ==
    /\ daily.pc = "social"
    /\ LET topicDone == res # "ok" \/ daily.platform = Len(Platforms)
           lastTopic == daily.social = NumSocialTopics
       IN  daily' = [daily EXCEPT
                   !.generated_content =
                       IF res = "ok" THEN Append(daily.generated_content, Platforms[daily.platform])
                       ELSE daily.generated_content,
                   !.platform = IF topicDone THEN 1 ELSE @ + 1,
                   !.social = IF topicDone THEN @ + 1 ELSE @,
                   !.pc = IF topicDone /\ lastTopic THEN "log" ELSE "social"]

\* "self._log_execution('daily_content_generation', {...})": the entry goes
\* to execution_log and to the log file; an error of _log_execution is caught
\* by the outer "except Exception: log, raise".
DailyLog(res) ==
    /\ daily.pc = "log"
    /\ LogExecution("daily_content_generation",
                    [generated_count |-> Len(daily.generated_content),
                     content |-> daily.generated_content], res)
    /\ daily' = [daily EXCEPT
                   !.pc = "done",
                   !.logged = <<[task |-> "daily_content_generation",
                                 generated_count |-> Len(daily.generated_content)]>>,
                   !.out = IF LogOutcome(res) = "return" THEN [kind |-> "return", val |-> "None"]
                           ELSE [kind |-> "raise", cls |-> LogOutcome(res)]]

InitDailyRun ==
    /\ InitRetryIdle
    /\ InitLimiterIdle
    /\ InitCore
    /\ InitRl /\ InitElog /\ InitDaily /\ InitOpt /\ InitDb

dailyRest == <<retryVars, limVars, auxVars, rl, opt, db>>

NextDaily ==
    \/ DailyStart /\ UNCHANGED <<dailyRest, elog>>
    \/ \E res \in StepResults : DailyBlog(res) /\ UNCHANGED <<dailyRest, elog>>
    \/ \E res \in StepResults : DailySocial(res) /\ UNCHANGED <<dailyRest, elog>>
    \/ \E res \in LogResults : DailyLog(res) /\ UNCHANGED dailyRest

SpecDaily == InitDailyRun /\ [][NextDaily]_vars

----------------------------------------------------------------------------
(* ProductOptimizer.analyze_product (optimizer.py) *)

MIN_TITLE_LENGTH == 30
MAX_TITLE_LENGTH_WARNING == 80
MIN_DESCRIPTION_LENGTH == 300
MIN_TAG_COUNT == 5
MIN_IMAGE_COUNT == 3
SEO_PERFECT_SCORE == 100

\* A product as analyze_product reads it: the lengths of its title,
\* description, tags and images, whether the title contains one of
\* config.brand.main_categories, whether the description contains "<p>" or
\* "<div>", and its price (whole units).
Products ==
    [title_length : {MIN_TITLE_LENGTH - 1, MIN_TITLE_LENGTH,
                     MAX_TITLE_LENGTH_WARNING, MAX_TITLE_LENGTH_WARNING + 1},
     keyword_in_title : BOOLEAN,
     description_length : {MIN_DESCRIPTION_LENGTH - 1, MIN_DESCRIPTION_LENGTH},
     has_html : BOOLEAN,
     tag_count : {MIN_TAG_COUNT - 1, MIN_TAG_COUNT},
     price : {-1, 0, 30},
     image_count : {0, MIN_IMAGE_COUNT - 1, MIN_IMAGE_COUNT}]

\* Mutant of Check: the penalty is subtracted but no issue is listed.
CheckSilent(acc, detected, issue, penalty) ==
    IF detected THEN [issues |-> acc.issues, score |-> acc.score - penalty] ELSE acc

\* "if <detected>: issues.append(<issue>); score -= <penalty>"
Check(acc, detected, issue, penalty) ==
    IF detected THEN [issues |-> Append(acc.issues, issue), score |-> acc.score - penalty]
    ELSE acc

\* analyze_product(product)
AnalyzeProduct(p) ==
    LET a0 == [issues |-> <<>>, score |-> SEO_PERFECT_SCORE]
        a1 == IF p.title_length < MIN_TITLE_LENGTH
                THEN Check(a0, TRUE, "Title too short - should be 60-70 characters", 15)
                ELSE Check(a0, p.title_length > MAX_TITLE_LENGTH_WARNING, "Title too long - will be truncated in search results", 10)
        a2 == Check(a1, ~p.keyword_in_title, "Title missing primary keyword", 20)
        a3 == Check(a2, p.description_length < MIN_DESCRIPTION_LENGTH, "Description too short - should be at least 300 characters", 15)
        a4 == Check(a3, ~p.has_html, "Description lacks HTML formatting", 5)
        a5 == Check(a4, p.tag_count < MIN_TAG_COUNT, "Too few product tags - add more for better discovery (minimum 5)", 10)
        a6 == Check(a5, p.price <= 0, "Invalid price", 20)
        a7 == Check(a6, p.image_count = 0 \/ p.image_count < MIN_IMAGE_COUNT,
                    "Need at least 3 product images", 10)
    IN  [score |-> Max(a7.score, 0),
         issues |-> a7.issues,
         title_length |-> p.title_length,
         description_length |-> p.description_length,
         tag_count |-> p.tag_count,
         image_count |-> p.image_count]

Analyze(p) ==
    opt' = [analysed |-> TRUE, product |-> p, analysis |-> AnalyzeProduct(p)]

InitOptimizer ==
    /\ InitRetryIdle
    /\ InitLimiterIdle
    /\ InitCore
    /\ InitRl /\ InitElog /\ InitDaily /\ InitOpt /\ InitDb

NextOptimizer ==
    \E p \in Products :
        Analyze(p) /\ UNCHANGED <<retryVars, limVars, auxVars, rl, elog, daily, db>>

SpecOptimizer == InitOptimizer /\ [][NextOptimizer]_vars

----------------------------------------------------------------------------
(* DatabaseHelper.get_connection (database/db_helper.py) *)

MaxDbUses == 2

\* What the body of "with db.get_connection() as conn:" can do: finish, or
\* raise an exception that derives from Exception, or one that does not.
BodyResults == {"return", "ValueError", "KeyboardInterrupt"}

\* What a call on the connection (or pymysql.connect) can do: return, raise
\* an exception that derives from Exception, or be left by one that does not
\* (KeyboardInterrupt, SystemExit).
CallResults == {"ok", "raise", "interrupt"}

\* The exception with which the call op ended when its result was res.
Failure(op, res) ==
    CASE op = "connect" /\ res = "raise" -> "connect error"
      [] op = "connect" /\ res = "interrupt" -> "connect interrupt"
      [] op = "commit" /\ res = "raise" -> "commit error"
      [] op = "commit" /\ res = "interrupt" -> "commit interrupt"
      [] op = "rollback" /\ res = "raise" -> "rollback error"
      [] op = "rollback" /\ res = "interrupt" -> "rollback interrupt"
      [] op = "close" /\ res = "raise" -> "close error"
      [] op = "close" /\ res = "interrupt" -> "close interrupt"
      [] OTHER -> "none"

\* Where a try block left by the result res of a call goes on: after the
\* block, in the "except Exception" clause, or straight in the finally clause.
AfterTry(res, next) ==
    CASE res = "ok" -> next
      [] res = "raise" -> "except"
      [] OTHER -> "finally"

\* "conn = None; conn = pymysql.connect(**self.db_config); yield conn"
DbConnect(res) ==
    /\ db.pc = "idle"
    /\ Len(db.uses) < MaxDbUses
    /\ db' = [db EXCEPT
                !.calls = <<[op |-> "connect", res |-> res]>>,
                !.conn = (res = "ok"),
                !.body = "none",
                !.pending = Failure("connect", res),
                !.pc = AfterTry(res, "body")]

\* The body of the with statement runs; what it raises is thrown into the
\* generator at the yield.
DbBody(res) ==
    /\ db.pc = "body"
    /\ db' = [db EXCEPT
                !.body = res,
                !.pending = IF res = "return" THEN "none" ELSE res,
                !.pc = CASE res = "return" -> "commit"
                         [] IsSubclass(res, "Exception") -> "except"
                         [] OTHER -> "finally"]

\* "conn.commit()"
DbCommit(res) ==
    /\ db.pc = "commit"
    /\ db' = [db EXCEPT
                !.calls = Append(db.calls, [op |-> "commit", res |-> res]),
                !.pending = Failure("commit", res),
                !.pc = AfterTry(res, "finally")]

\* "except Exception as e: if conn: conn.rollback(); logger.error(...); raise"
DbExcept(res) ==
    /\ db.pc = "except"
    /\ ~db.conn => res = "ok"
    /\ db' = [db EXCEPT
                !.calls = IF db.conn THEN Append(db.calls, [op |-> "rollback", res |-> res])
                          ELSE db.calls,
                !.pending = IF res = "ok" THEN db.pending ELSE Failure("rollback", res),
                !.pc = "finally"]

\* Mutant of DbFinally: the connection is closed only on the normal path.
DbFinallyLeaks(res) ==
    /\ db.pc = "finally"
    /\ ~(db.conn /\ db.pending = "none") => res = "ok"
    /\ LET calls == IF db.conn /\ db.pending = "none"
                      THEN Append(db.calls, [op |-> "close", res |-> res])
                      ELSE db.calls
       IN  db' = [db EXCEPT
                    !.pc = "idle", !.conn = FALSE, !.calls = <<>>, !.body = "none",
                    !.pending = "none",
                    !.uses = Append(db.uses, [calls |-> calls, body |-> db.body,
                                              out |-> IF res = "ok" THEN db.pending
                                                      ELSE Failure("close", res)])]

\* "finally: if conn: conn.close()", then the with statement ends: with the
\* exception of close() if it was left by one, else with the exception that
\* is pending, else normally.
DbFinally(res) ==
    /\ db.pc = "finally"
    /\ ~db.conn => res = "ok"
    /\ LET calls == IF db.conn
                      THEN Append(db.calls, [op |-> "close", res |-> res])
                      ELSE db.calls
       IN  db' = [db EXCEPT
                    !.pc = "idle", !.conn = FALSE, !.calls = <<>>, !.body = "none",
                    !.pending = "none",
                    !.uses = Append(db.uses, [calls |-> calls, body |-> db.body,
                                              out |-> IF res = "ok" THEN db.pending
                                                      ELSE Failure("close", res)])]

InitDatabase ==
    /\ InitRetryIdle
    /\ InitLimiterIdle
    /\ InitCore
    /\ InitRl /\ InitElog /\ InitDaily /\ InitOpt /\ InitDb

dbRest == <<retryVars, limVars, auxVars, rl, elog, daily, opt>>

NextDatabase ==
    \/ \E res \in CallResults : DbConnect(res) /\ UNCHANGED dbRest
    \/ \E res \in BodyResults : DbBody(res) /\ UNCHANGED dbRest
    \/ \E res \in CallResults : DbCommit(res) /\ UNCHANGED dbRest
    \/ \E res \in CallResults : DbExcept(res) /\ UNCHANGED dbRest
    \/ \E res \in CallResults : DbFinally(res) /\ UNCHANGED dbRest

SpecDatabase == InitDatabase /\ [][NextDatabase]_vars

----------------------------------------------------------------------------
(* Properties of the retry wrapper *)

\* Membership of an exception in the configured retryable categories,
\* stated independently of the wrapper's except clause.
Retryable(e) ==
    \/ e.cls \in cfg.exceptions
    \/ "Exception" \in cfg.exceptions /\ e.cls \in {"ValidationError", "APIError", "RateLimitError", "ValueError", "TypeError"}
    \/ "APIError" \in cfg.exceptions /\ e.cls = "RateLimitError"

Calls == CallEvents(log)
Sleeps == SleepEvents(log)
Failures == SelectSeq(log, LAMBDA e : e.ev = "raise")

AllRetryableFailures == \A i \in 1 .. Len(Calls) : Calls[i].ev = "raise" /\ Retryable(Calls[i])

\* C1: with max_retries = m >= 0, while every call so far failed with a
\* retryable exception the wrapper gives up exactly at call m+1, and what it
\* then raises is the exception object of that last call; with m = 0 nothing
\* was slept.
C1_ExhaustionRaisesLast ==
    (cfg.max_retries >= 0 /\ AllRetryableFailures) =>
        /\ Len(Calls) <= cfg.max_retries + 1
        /\ pc # "returned"
        /\ (pc = "raised") <=> (Len(Calls) = cfg.max_retries + 1)
        /\ pc = "raised" =>
              /\ outcome.kind = "raise"
              /\ outcome.exc = [cls |-> Calls[Len(Calls)].cls, id |-> cfg.max_retries + 1]
              /\ cfg.max_retries = 0 => Sleeps = <<>>

C1_Witness ==
    /\ cfg.max_retries = 2
    /\ pc = "raised"
    /\ AllRetryableFailures
    /\ Len(Calls) = 3
    /\ outcome.exc.id = 3

\* C2: a success ends the invocation at once: the successful call is the last
\* event, the wrapper returns its value, it was preceded by k <= max_retries
\* retryable failures (k+1 calls in all); and after k <= max_retries
\* retryable failures without a success the wrapper is still going to call.
C2_SuccessAfterFailures ==
    /\ \A i \in 1 .. Len(log) : log[i].ev = "return" =>
          /\ i = Len(log)
          /\ pc = "returned"
          /\ outcome = [kind |-> "return", val |-> log[i].val]
    /\ (pc = "returned" /\ cfg.max_retries >= 0) =>
          /\ Len(Calls) >= 1
          /\ Calls[Len(Calls)].ev = "return"
          /\ Len(Calls) = Len(Failures) + 1
          /\ Len(Failures) <= cfg.max_retries
          /\ \A i \in 1 .. Len(Failures) : Retryable(Failures[i])
    /\ (invocations > 0 /\ AllRetryableFailures /\ Len(Calls) <= cfg.max_retries) =>
          pc \in {"call", "sleep"}

C2_Witness ==
    /\ pc = "returned"
    /\ Len(Failures) = 2
    /\ Len(Calls) = 3
    /\ outcome = [kind |-> "return", val |-> "ok"]

\* C3: an exception outside the retryable categories, raised on any attempt,
\* ends the invocation: it is the last event (no sleep, no call after it) and
\* it is the exception the caller receives.
C3_NonRetryablePropagates ==
    \A i \in 1 .. Len(log) : (log[i].ev = "raise" /\ ~Retryable(log[i])) =>
        /\ i = Len(log)
        /\ pc = "raised"
        /\ outcome = [kind |-> "raise", exc |-> [cls |-> log[i].cls, id |-> log[i].id]]

C3_Witness ==
    /\ pc = "raised"
    /\ Len(Calls) = 2
    /\ attempt < cfg.max_retries
    /\ ~Retryable(Calls[2])
    /\ Retryable(Calls[1])

\* C4 (as claimed): a ValidationError raised by the wrapped function is never
\* retried, under every configuration: it is the only call, nothing is
\* slept and it is what the caller receives.
C4_ValidationNeverRetried ==
    \A i \in 1 .. Len(log) : (log[i].ev = "raise" /\ log[i].cls = "ValidationError") =>
        /\ Len(log) = 1
        /\ pc = "raised"
        /\ outcome = [kind |-> "raise", exc |-> [cls |-> "ValidationError", id |-> 1]]

\* C5 (as claimed): no single wait is longer than max_delay.
C5_EveryWaitCapped ==
    \A i \in 1 .. Len(Sleeps) : Sleeps[i].d <= cfg.max_delay

RECURSIVE Pow(_, _)
Pow(b, n) == IF n = 0 THEN 1 ELSE b * Pow(b, n - 1)

\* C6 (as claimed): the i-th wait (counting from 0) lasts
\* min(initial_delay * exponential_base^i, max_delay).
C6_WaitFormula ==
    \A i \in 1 .. Len(Sleeps) :
        Sleeps[i].d = Min(cfg.initial_delay * Pow(cfg.exponential_base, i - 1), cfg.max_delay)

----------------------------------------------------------------------------
(* Properties of the RateLimiter used from one thread *)

PositiveRate == lim.state = "ready" /\ lim.requests_per_minute > 0
SixtyOverR == Frac(60, lim.requests_per_minute)
Elapsed(from, to) == Whole(to - from)

\* C7: with requests_per_minute = r > 0, the return times of two consecutive
\* wait_if_needed calls are at least 60/r apart.
C7_ReturnsSeparated ==
    PositiveRate =>
        \A i \in 2 .. Len(hist) : FracLeq(SixtyOverR, Elapsed(hist[i - 1].ret, hist[i].ret))

C7_Witness ==
    /\ PositiveRate
    /\ lim.requests_per_minute = 50
    /\ Len(hist) >= 2
    /\ hist[2].slept = Frac(6, 5)
    /\ hist[2].ret - hist[1].ret = 2

\* C8 (as claimed): the entries into wait_if_needed of two consecutive calls
\* are at least min_interval apart.
C8_EntriesSeparated ==
    PositiveRate =>
        \A i \in 2 .. Len(hist) : FracLeq(SixtyOverR, Elapsed(hist[i - 1].entry, hist[i].entry))

\* C8 (amended): measured from the end of one call's wait to the end of the
\* next call's wait (its entry plus the time it blocks), two consecutive
\* calls are at least min_interval apart.
C8_WaitEndsSeparated ==
    PositiveRate =>
        \A i \in 2 .. Len(hist) :
            FracLeq(FracAdd(Whole(hist[i - 1].ret), SixtyOverR),
                    FracAdd(Whole(hist[i].entry), hist[i].slept))

C8_Witness ==
    /\ PositiveRate
    /\ Len(hist) >= 2
    /\ FracLess(Elapsed(hist[1].entry, hist[2].entry), SixtyOverR)
    /\ FracAdd(Whole(hist[2].entry), hist[2].slept) = FracAdd(Whole(hist[1].ret), SixtyOverR)

\* C9 (as claimed): the first wait_if_needed call on a fresh limiter with
\* requests_per_minute > 0 does not wait, whatever the clock reads.
C9_FirstCallNeverWaits ==
    PositiveRate =>
        /\ Len(hist) = 0 => tpc[1] # "sleeping"
        /\ Len(hist) >= 1 => hist[1].slept = Whole(0)

\* C10: every call after the first blocks for max(0, min_interval - elapsed),
\* elapsed counted from the previous call's recorded time to this call's
\* entry, and the time it records is the clock reading after the wait.
C10_BlocksForRemainder ==
    PositiveRate =>
        /\ \A i \in 2 .. Len(hist) :
              /\ hist[i].slept =
                    FracMax(Whole(0), FracSub(SixtyOverR, Elapsed(hist[i - 1].ret, hist[i].entry)))
              /\ FracLeq(FracAdd(Whole(hist[i].entry), hist[i].slept), Whole(hist[i].ret))
        /\ (Len(hist) >= 1 /\ tpc[1] = "idle") => lim.last_request_time = hist[Len(hist)].ret

C10_Witness ==
    /\ PositiveRate
    /\ Len(hist) = 3
    /\ lim.requests_per_minute = 50
    /\ hist[2].slept = Frac(1, 5)
    /\ hist[2].entry > hist[1].ret
    /\ hist[3].slept = Whole(0)
    /\ tpc[1] = "idle"
    /\ lim.last_request_time = hist[3].ret

\* C11 (as claimed): a limiter is obtained only for a positive
\* requests_per_minute; zero or a negative value never yields a limiter that
\* admits calls.
C11_NonPositiveRejected ==
    /\ lim.state = "ready" => lim.requests_per_minute > 0
    /\ hist # <<>> => lim.requests_per_minute > 0

----------------------------------------------------------------------------
(* Properties of the RateLimiter shared by two threads *)

\* C13: the limiter takes no lock: a thread can enter wait_if_needed while
\* the other is inside it; and a call is held back only with respect to the
\* baseline it read itself (it blocks for max(0, 60/r - (entry - seen)) and
\* returns no earlier than 60/r after that baseline), so nothing keeps the
\* returns of two threads that read the same baseline min_interval apart.
C13_CheckAndUpdateNotAtomic ==
    /\ \A t \in Threads :
          (lim.state = "ready" /\ tpc[t] = "idle"
             /\ Len(hist) + Cardinality(InFlight) < MaxRaceCalls) =>
              ENABLED EnterAny(t)
    /\ PositiveRate =>
          \A i \in 1 .. Len(hist) :
              /\ hist[i].slept =
                    FracMax(Whole(0), FracSub(SixtyOverR, Elapsed(hist[i].seen, hist[i].entry)))
              /\ FracLeq(FracAdd(Whole(hist[i].seen), SixtyOverR), Whole(hist[i].ret))

C13_Witness ==
    /\ PositiveRate
    /\ Len(hist) >= 2
    /\ hist[1].thread # hist[2].thread
    /\ hist[1].seen = hist[2].seen
    /\ hist[2].entry < hist[1].ret
    /\ FracLess(Elapsed(hist[1].ret, hist[2].ret), SixtyOverR)

----------------------------------------------------------------------------
(* Properties of the RateLimiter used as a decorator *)

\* C12: the i-th run of the decorated callable starts when exactly i
\* wait_if_needed calls have completed (one per invocation, before the run),
\* the wrapper hands back what the callable gave, and with a positive rate
\* the starts of consecutive runs are at least min_interval apart.
C12_DecoratorThrottles ==
    \A i \in 1 .. Len(dec.runs) :
        /\ dec.runs[i].waits = i
        /\ dec.runs[i].out = dec.runs[i].res
        /\ dec.runs[i].start = hist[i].ret
        /\ (PositiveRate /\ i > 1) =>
              FracLeq(SixtyOverR, Elapsed(dec.runs[i - 1].start, dec.runs[i].start))

C12_Witness ==
    /\ PositiveRate
    /\ Len(dec.runs) = 3
    /\ hist[2].slept.num > 0
    /\ Elapsed(dec.runs[1].start, dec.runs[2].start) = SixtyOverR
    /\ dec.runs[3].out = [kind |-> "return", val |-> "ok"]

----------------------------------------------------------------------------
(* Properties of handle_api_error and validate_input *)

Handled == SelectSeq(hlog, LAMBDA r : r.op = "handle")
Validated == SelectSeq(hlog, LAMBDA r : r.op = "validate")

\* The upstream failures other than the throttling signal.
OtherUpstream == {"anthropic.APIError", "anthropic.APIConnectionError", "anthropic.AuthenticationError"}
Upstream == OtherUpstream \cup {"anthropic.RateLimitError"}

\* C14 (as claimed): an anthropic.RateLimitError raised by the wrapped call
\* reaches the caller as a RateLimitError.
C14_ThrottlingMapsToRateLimit ==
    \A i \in 1 .. Len(Handled) :
        (Handled[i].in.kind = "raise" /\ Handled[i].in.cls = "anthropic.RateLimitError") =>
            /\ Handled[i].once.kind = "raise"
            /\ Handled[i].once.cls = "RateLimitError"

\* C15: a generic anthropic API error, a connection failure and an
\* authentication failure each reach the caller as an APIError.
C15_UpstreamMapsToAPIError ==
    \A i \in 1 .. Len(Handled) :
        (Handled[i].in.kind = "raise" /\ Handled[i].in.cls \in OtherUpstream) =>
            /\ Handled[i].once.kind = "raise"
            /\ Handled[i].once.cls = "APIError"

C15_Witness ==
    \E i \in 1 .. Len(Handled) :
        /\ Handled[i].in.kind = "raise"
        /\ Handled[i].in.cls = "anthropic.AuthenticationError"
        /\ Handled[i].once.cls = "APIError"
        /\ Handled[i].once.cause = Handled[i].in.obj

\* C16: a failure that is not an upstream failure leaves handle_api_error as
\* the same exception object, class and message, and a returned value is
\* handed back as it is.
C16_UnrecognisedPropagates ==
    \A i \in 1 .. Len(Handled) :
        (Handled[i].in.kind = "return" \/ Handled[i].in.cls \notin Upstream) =>
            Handled[i].once = Handled[i].in

C16_Witness ==
    /\ Len(Handled) = 2
    /\ Handled[1].in.kind = "raise"
    /\ Handled[1].in.cls = "ValidationError"
    /\ Handled[1].once = Handled[1].in
    /\ Handled[2].in = [kind |-> "return", val |-> "ok"]
    /\ Handled[2].once = Handled[2].in

\* The kind an outcome has for the caller.
Kind(x) == IF x.kind = "return" THEN "return" ELSE x.cls

\* C17 (as claimed): wrapping a callable in handle_api_error twice surfaces
\* the same kind as wrapping it once, and classifying a failure has no effect
\* besides the kind it yields: nothing is written to the log.
C17_ClassifyIdempotentNoEffect ==
    \A i \in 1 .. Len(Handled) :
        /\ Kind(Handled[i].twice) = Kind(Handled[i].once)
        /\ Handled[i].errors = 0

\* C18: validate_input raises ValidationError with exactly the caller's
\* message when the condition is false, and returns with nothing logged when
\* it is true.
C18_ValidateInput ==
    \A i \in 1 .. Len(Validated) :
        /\ ~Validated[i].condition =>
              /\ Validated[i].out.kind = "raise"
              /\ Validated[i].out.cls = "ValidationError"
              /\ Validated[i].out.msg = <<Validated[i].message>>
        /\ Validated[i].condition =>
              /\ Validated[i].out = [kind |-> "return", val |-> "None"]
              /\ Validated[i].errors = 0

C18_Witness ==
    /\ Len(Validated) = 2
    /\ ~Validated[1].condition /\ Validated[1].message = "bad input"
    /\ Validated[1].out.msg = <<"bad input">>
    /\ Validated[2].condition /\ Validated[2].message = "unused"
    /\ Validated[2].out.kind = "return"

----------------------------------------------------------------------------
(* Properties of the content generator *)

Malformed == gen.topic = "" \/ gen.word_count <= 0 \/ gen.keywords = <<>>

\* C19 (as claimed): for a request with an empty topic, a non-positive word
\* count or no keywords, client.messages.create is never called and the
\* request ends in a ValidationError.
C19_MalformedRejectedBeforeCall ==
    (gen.pc # "idle" /\ Malformed) =>
        /\ gen.calls = 0
        /\ gen.pc = "done" => (gen.out.kind = "raise" /\ gen.out.cls = "ValidationError")

\* C20 (as claimed): every call of client.messages.create was preceded by a
\* pass through the rate limiter, and a rate-limit or connection failure is
\* not surfaced to the caller after a single attempt.
C20_RequestsRetriedAndThrottled ==
    /\ gen.calls <= Len(hist)
    /\ (gen.pc = "done" /\ gen.out.kind = "raise"
          /\ gen.out.cls \in {"anthropic.RateLimitError", "anthropic.APIConnectionError"}) =>
            gen.calls > 1


----------------------------------------------------------------------------
(* Further properties of the retry wrapper *)

\* C25: every wait directly follows a failed call and is followed by the next
\* call, every failed call that is not the last event is followed by exactly
\* one wait, and a finished invocation (max_retries >= 0) ends in a call and
\* has slept once less than it called.
C25_OneWaitPerRetry ==
    /\ \A i \in 1 .. Len(log) : log[i].ev = "sleep" =>
          /\ i > 1
          /\ log[i - 1].ev = "raise"
          /\ i < Len(log) => log[i + 1].ev \in {"raise", "return"}
          /\ i = Len(log) => pc = "call"
    /\ \A i \in 1 .. Len(log) - 1 : log[i].ev = "raise" => log[i + 1].ev = "sleep"
    /\ (cfg.max_retries >= 0 /\ pc \in {"returned", "raised"}) =>
          /\ log[Len(log)].ev # "sleep"
          /\ Len(Sleeps) = Len(Calls) - 1

C25_Witness ==
    /\ pc = "returned"
    /\ Len(Calls) = 3
    /\ Len(Sleeps) = 2
    /\ log[2].ev = "sleep" /\ log[4].ev = "sleep"

\* The delay an invocation holds after n waits, computed from the
\* configuration alone.
RECURSIVE DelayAfter(_)
DelayAfter(n) ==
    IF n = 0 THEN cfg.initial_delay
    ELSE Min(DelayAfter(n - 1) * cfg.exponential_base, cfg.max_delay)

\* The frame of wrapper() that is running.
Running ==
    [pc |-> pc, attempt |-> attempt, delay |-> delay, last_exception |-> last_exception,
     outcome |-> outcome, log |-> log]

\* The locals of the frame f are what its own invocation made them.
OwnState(f) ==
    /\ (f.pc # "idle" /\ cfg.max_retries >= 0 /\ f.log = <<>>) =>
          /\ f.pc = "call"
          /\ f.attempt = 0
          /\ f.delay = cfg.initial_delay
          /\ f.last_exception = NoException
    /\ f.pc \in {"call", "sleep"} =>
          /\ f.attempt = Len(SleepEvents(f.log))
          /\ f.delay = DelayAfter(Len(SleepEvents(f.log)))
          /\ NumCalls(f.log) <= cfg.max_retries + 1
    /\ f.pc = "call" =>
          /\ NumCalls(f.log) = f.attempt
          /\ f.attempt <= cfg.max_retries
    /\ f.pc = "sleep" =>
          /\ NumCalls(f.log) = f.attempt + 1
          /\ f.last_exception.id = NumCalls(f.log)

\* C26: in any sequence or interleaving of invocations, the attempt counter,
\* the delay and the remembered exception of an invocation are functions of
\* what happened in this invocation only: an invocation that has done nothing
\* yet is at attempt 0 with delay = initial_delay and no remembered exception,
\* after n waits it is at attempt n with the n-th delay of the schedule, and
\* its calls are counted against max_retries + 1 from zero, whatever an
\* earlier invocation left behind and whatever an invocation in progress at
\* the same time does.
C26_NoStateAcrossInvocations ==
    /\ OwnState(Running)
    /\ OwnState(parked)

\* Two invocations are in progress: one has failed twice and waited twice,
\* the other has just been entered.
C26_Witness ==
    /\ invocations = 2
    /\ parked.pc = "call"
    /\ parked.attempt = 2
    /\ NumCalls(parked.log) = 2
    /\ parked.delay # cfg.initial_delay
    /\ pc = "call"
    /\ log = <<>>
    /\ attempt = 0
    /\ delay = cfg.initial_delay

\* C27: with max_retries >= 0 a finished invocation has called the function
\* at least once and ended in that call: it returned exactly the value the
\* last call returned, or raised what the last call raised; it never ended
\* after the loop ran out (which would show as an invocation ending without a
\* call or in a wait).
C27_AtLeastOneCall ==
    (cfg.max_retries >= 0 /\ pc \in {"returned", "raised"}) =>
        /\ Len(Calls) >= 1
        /\ log[Len(log)].ev \in {"raise", "return"}
        /\ pc = "returned" =>
              /\ log[Len(log)].ev = "return"
              /\ outcome = [kind |-> "return", val |-> log[Len(log)].val]
        /\ pc = "raised" =>
              /\ log[Len(log)].ev = "raise"
              /\ outcome = [kind |-> "raise",
                            exc |-> [cls |-> log[Len(log)].cls, id |-> Len(Calls)]]

C27_Witness ==
    /\ cfg.max_retries = 0
    /\ pc = "returned"
    /\ Len(Calls) = 1
    /\ Calls[1].ev = "return" /\ Calls[1].val = "None"
    /\ outcome.val = "None"


----------------------------------------------------------------------------
(* Further properties of the limiter used as a decorator *)

\* C29: a run of the decorated callable that raises hands its caller the very
\* exception raised; the admission time of that run is what the limiter holds
\* as last_request_time until the next admission, and with a positive rate
\* the next run starts at least 60/r after the failed one.
C29_FailedRunKeepsSlot ==
    \A i \in 1 .. Len(dec.runs) : dec.runs[i].res.kind = "raise" =>
        /\ dec.runs[i].out = [kind |-> "raise", exc |-> dec.runs[i].res.exc]
        /\ i = Len(dec.runs) => lim.last_request_time = dec.runs[i].start
        /\ i < Len(dec.runs) => hist[i + 1].seen = dec.runs[i].start
        /\ (i < Len(dec.runs) /\ PositiveRate) =>
              FracLeq(FracAdd(Whole(dec.runs[i].start), SixtyOverR), Whole(dec.runs[i + 1].start))

C29_Witness ==
    /\ PositiveRate
    /\ Len(dec.runs) = 2
    /\ dec.runs[1].res.kind = "raise"
    /\ dec.runs[1].out.exc = [cls |-> "ValueError", id |-> 1]
    /\ dec.runs[1].start > 0
    /\ hist[2].slept.num > 0
    /\ Whole(dec.runs[2].start) = FracAdd(Whole(dec.runs[1].start), SixtyOverR)


----------------------------------------------------------------------------
(* Properties of safe_execute *)

SafeRuns == SelectSeq(hlog, LAMBDA h : h.op = "safe")

\* The classes of HandlerRaises that derive from Exception.
OrdinaryExceptions == HandlerRaises \ {"KeyboardInterrupt"}

\* C21: safe_execute returns what func returned, with nothing logged; when
\* func raises an Exception it returns the caller's default (None when none
\* was given) instead of raising, and logs one error if log_error is true and
\* none if it is false.
C21_SafeExecute ==
    \A i \in 1 .. Len(SafeRuns) :
        LET r == SafeRuns[i] IN
        /\ r.in.kind = "return" => (r.out = r.in /\ r.errors = 0)
        /\ (r.in.kind = "raise" /\ r.in.cls \in OrdinaryExceptions) =>
              /\ r.out.kind = "return"
              /\ r.out.val = (IF r.default.given THEN r.default.val ELSE "None")
              /\ r.errors = (IF r.log_error THEN 1 ELSE 0)

C21_Witness ==
    /\ Len(SafeRuns) = 2
    /\ SafeRuns[1].in.kind = "raise" /\ SafeRuns[1].in.cls = "ValueError"
    /\ SafeRuns[1].default.given /\ SafeRuns[1].log_error
    /\ SafeRuns[1].out = [kind |-> "return", val |-> "default"]
    /\ SafeRuns[1].errors = 1
    /\ SafeRuns[2].in.kind = "raise" /\ ~SafeRuns[2].default.given /\ ~SafeRuns[2].log_error
    /\ SafeRuns[2].out = [kind |-> "return", val |-> "None"]
    /\ SafeRuns[2].errors = 0


----------------------------------------------------------------------------
(* Properties of retry_with_backoff around a rate-limited callable *)

\* C28: every attempt of the retry wrapper passed through wait_if_needed
\* exactly once before the function ran (the i-th attempt starts when the i-th
\* wait returns), and the starts of two consecutive attempts are at least
\* max(d, 60/r) apart, d being the delay the retry wrapper slept between them.
C28_AttemptsThrottledAndBackedOff ==
    /\ Len(rl.attempts) = Len(Calls)
    /\ \A i \in 1 .. Len(rl.attempts) :
          /\ rl.attempts[i].waits = i
          /\ hist[i].ret = rl.attempts[i].start
          /\ i > 1 =>
                FracLeq(FracMax(Whole(Sleeps[i - 1].d), SixtyOverR),
                        Elapsed(rl.attempts[i - 1].start, rl.attempts[i].start))

C28_Witness ==
    /\ Len(rl.attempts) = 3
    /\ Len(hist) = 3
    /\ lim.requests_per_minute = 60
    /\ Sleeps[1].d = 2
    /\ hist[2].slept = Whole(0)
    /\ rl.attempts[2].start - rl.attempts[1].start = 2
    /\ Sleeps[2].d = 0
    /\ hist[3].slept = Whole(1)
    /\ rl.attempts[3].start - rl.attempts[2].start = 1


----------------------------------------------------------------------------
(* Properties of the execution log *)

\* Every entry ever logged, oldest first: what the file held at start-up and
\* then one entry per call of this process.
AllLogged == elog.initial \o elog.mem

\* C22 (as claimed): the list in memory holds one entry per call, in call
\* order, with the task name and details given; after any sequence of calls
\* the file holds the last min(1000, number of entries logged) entries logged,
\* in their order, the entry just logged last.
C22_LogKeepsMostRecent ==
    /\ Len(elog.mem) = Len(elog.calls)
    /\ \A i \in 1 .. Len(elog.mem) :
          /\ elog.mem[i].timestamp = i
          /\ elog.mem[i].task = elog.calls[i].task
          /\ elog.mem[i].details = elog.calls[i].details
    /\ elog.calls # <<>> =>
          LET k == Min(Len(AllLogged), 1000) IN
          /\ elog.exists
          /\ Len(elog.file) = k
          /\ \A j \in 1 .. k : elog.file[j] = AllLogged[Len(AllLogged) - k + j]
          /\ elog.file[Len(elog.file)] = elog.mem[Len(elog.mem)]

\* Everything logged by a call that returned, oldest first: what the file
\* held at start-up and then the entries of this process whose call returned
\* (the timestamp of an entry is the number of its call).
EverLogged ==
    elog.initial \o SelectSeq(elog.mem, LAMBDA e : elog.calls[e.timestamp].out = "return")

\* The calls whose json.dump failed after the file had been truncated.
Truncating ==
    {i \in 1 .. Len(elog.calls) : elog.calls[i].res = "dump_raises" /\ elog.calls[i].out = "OSError"}

\* C22 (amended): the list in memory holds one entry per call, in call order,
\* with the task name and details given, whether or not the call returns.  A
\* call returns exactly when no step of it fails and no earlier call failed in
\* json.dump.  While no call has failed in json.dump: until a call returns the
\* file is as found at start-up; once one has, the file holds the last
\* min(1000, number of entries) of the entries found at start-up followed by
\* the entries of the calls that returned, in their order, and after a call
\* that returned its entry is the last; the entry of a call that raised is
\* not in the file.  Once a call has failed in json.dump the file exists but
\* holds no entry, no later call returns or writes it, and each later call
\* raises JSONDecodeError unless mkdir or the open for reading fails first.
C22_LogKeepsMostRecentAmended ==
    /\ Len(elog.mem) = Len(elog.calls)
    /\ \A i \in 1 .. Len(elog.mem) :
          /\ elog.mem[i].timestamp = i
          /\ elog.mem[i].task = elog.calls[i].task
          /\ elog.mem[i].details = elog.calls[i].details
          /\ (elog.calls[i].out = "return") <=>
                (elog.calls[i].res = "ok" /\ \A j \in Truncating : i < j)
    /\ Truncating = {} =>
          LET k == Min(Len(EverLogged), 1000)
              returned == \E i \in 1 .. Len(elog.calls) : elog.calls[i].out = "return"
          IN
          /\ ~elog.corrupt
          /\ ~returned => elog.file = elog.initial
          /\ returned => elog.exists
          /\ returned => Len(elog.file) = k
          /\ returned => \A j \in 1 .. k : elog.file[j] = EverLogged[Len(EverLogged) - k + j]
          /\ (elog.calls # <<>> /\ elog.calls[Len(elog.calls)].out = "return") =>
                elog.file[Len(elog.file)] = elog.mem[Len(elog.mem)]
          /\ \A i \in 1 .. Len(elog.calls) :
                elog.calls[i].out # "return" =>
                    \A j \in 1 .. Len(elog.file) : elog.file[j] # elog.mem[i]
    /\ Truncating # {} =>
          LET first == CHOOSE i \in Truncating : \A j \in Truncating : i <= j IN
          /\ Truncating = {first}
          /\ elog.exists /\ elog.corrupt
          /\ elog.file = <<>>
          /\ \A i \in first + 1 .. Len(elog.calls) :
                elog.calls[i].out = (IF elog.calls[i].res = "mkdir_raises" THEN "OSError"
                                     ELSE "JSONDecodeError")

C22_Witness ==
    /\ Len(elog.initial) = 999
    /\ Len(elog.mem) = 3
    /\ elog.calls[1].out = "return"
    /\ elog.calls[2].res = "open_raises"
    /\ elog.calls[3].out = "return"
    /\ Len(elog.file) = 1000
    /\ elog.file[1] = elog.initial[2]
    /\ elog.file[998] = elog.initial[999]
    /\ elog.file[999] = elog.mem[1]
    /\ elog.file[1000] = elog.mem[3]
    /\ elog.mem[3].task = "weekly_seo_audit"

----------------------------------------------------------------------------
(* Properties of the daily content run *)

\* C23 (as claimed): a run in which generate_blog_post failed for every
\* daily topic ends by raising to its caller.
C23_AllBlogFailuresRaise ==
    (daily.pc = "done" /\ daily.blog_failures = NumDailyTopics) => daily.out.kind = "raise"


----------------------------------------------------------------------------
(* Properties of analyze_product *)

\* The penalty of each issue, as a table.
IssuePenalty(issue) ==
    CASE issue = "Title too short - should be 60-70 characters" -> 15
      [] issue = "Title too long - will be truncated in search results" -> 10
      [] issue = "Title missing primary keyword" -> 20
      [] issue = "Description too short - should be at least 300 characters" -> 15
      [] issue = "Description lacks HTML formatting" -> 5
      [] issue = "Too few product tags - add more for better discovery (minimum 5)" -> 10
      [] issue = "Invalid price" -> 20
      [] issue = "Need at least 3 product images" -> 10

RECURSIVE SumPenalties(_)
SumPenalties(issues) ==
    IF issues = <<>> THEN 0 ELSE IssuePenalty(Head(issues)) + SumPenalties(Tail(issues))

Listed(issue) == \E i \in 1 .. Len(opt.analysis.issues) : opt.analysis.issues[i] = issue

MeetsEveryCriterion(p) ==
    /\ p.title_length >= 30 /\ p.title_length <= 80
    /\ p.keyword_in_title
    /\ p.description_length >= 300
    /\ p.has_html
    /\ p.tag_count >= 5
    /\ p.price > 0
    /\ p.image_count >= 3

\* C24: the score of an analysis lies in 0..100 and equals 100 minus the
\* penalties of the issues listed; every criterion the product fails is
\* listed exactly once and nothing else is; the list is empty exactly when the
\* score is 100, which is the case for a product that meets every criterion.
C24_ScoreIsHundredMinusPenalties ==
    opt.analysed =>
        LET a == opt.analysis
            p == opt.product
        IN
        /\ a.score >= 0 /\ a.score <= 100
        /\ a.score = 100 - SumPenalties(a.issues)
        /\ (a.issues = <<>>) <=> (a.score = 100)
        /\ \A i, j \in 1 .. Len(a.issues) : a.issues[i] = a.issues[j] => i = j
        /\ Listed("Title too short - should be 60-70 characters") <=> p.title_length < 30
        /\ Listed("Title too long - will be truncated in search results") <=> p.title_length > 80
        /\ Listed("Title missing primary keyword") <=> ~p.keyword_in_title
        /\ Listed("Description too short - should be at least 300 characters") <=> p.description_length < 300
        /\ Listed("Description lacks HTML formatting") <=> ~p.has_html
        /\ Listed("Too few product tags - add more for better discovery (minimum 5)") <=> p.tag_count < 5
        /\ Listed("Invalid price") <=> p.price <= 0
        /\ Listed("Need at least 3 product images") <=> p.image_count < 3
        /\ MeetsEveryCriterion(p) => (a.score = 100 /\ a.issues = <<>>)

C24_Witness ==
    /\ opt.analysed
    /\ opt.product.title_length = 29
    /\ opt.product.price = 0
    /\ Len(opt.analysis.issues) = 7
    /\ opt.analysis.score = 5

----------------------------------------------------------------------------
(* Properties of get_connection *)

Ops(u) == [i \in 1 .. Len(u.calls) |-> u.calls[i].op]
Count(u, op) == Cardinality({i \in 1 .. Len(u.calls) : u.calls[i].op = op})
Opened(u) == u.calls[1] = [op |-> "connect", res |-> "ok"]
\* How the call op of the use u ended: "ok", "raise", "interrupt", or "none"
\* when it was not made.
Res(u, op) ==
    IF Count(u, op) = 0 THEN "none"
    ELSE u.calls[CHOOSE i \in 1 .. Len(u.calls) : u.calls[i].op = op].res
CommitRaised(u) == Res(u, "commit") \in {"raise", "interrupt"}
ClosedOnceAtEnd(u) == Count(u, "close") = 1 /\ u.calls[Len(u.calls)].op = "close"
\* The exceptions of the body that derive from Exception, and those that do not.
OrdinaryBody == {"ValueError"}
InterruptBody == {"KeyboardInterrupt"}

\* C30 (as claimed): a connection that was opened is committed exactly when
\* the body finished without an exception, is rolled back and the exception
\* re-raised when the body or the commit raised, and is closed exactly once,
\* last; when opening failed there is neither rollback nor close and the
\* error propagates.
C30_CommitRollbackClose ==
    \A k \in 1 .. Len(db.uses) :
        LET u == db.uses[k] IN
        /\ Opened(u) =>
              /\ (Count(u, "commit") = 1) <=> (u.body = "return")
              /\ Count(u, "commit") <= 1
              /\ (u.body \notin {"none", "return"}) =>
                    (Count(u, "rollback") = 1 /\ u.out = u.body)
              /\ CommitRaised(u) =>
                    (Count(u, "rollback") = 1 /\ u.out \in {"commit error", "commit interrupt"})
              /\ (u.body = "return" /\ ~CommitRaised(u)) =>
                    (Count(u, "rollback") = 0 /\ u.out = "none")
              /\ ClosedOnceAtEnd(u)
        /\ ~Opened(u) =>
              /\ Ops(u) = <<"connect">>
              /\ u.out \in {"connect error", "connect interrupt"}

\* What leaves the with statement of an opened use: the exception of the
\* last call that was left by one (close, else rollback, else commit), else
\* the exception of the body, else nothing.
Surfaces(u) ==
    CASE Res(u, "close") \in {"raise", "interrupt"} ->
            IF Res(u, "close") = "raise" THEN "close error" ELSE "close interrupt"
      [] Res(u, "rollback") \in {"raise", "interrupt"} ->
            IF Res(u, "rollback") = "raise" THEN "rollback error" ELSE "rollback interrupt"
      [] Res(u, "commit") \in {"raise", "interrupt"} ->
            IF Res(u, "commit") = "raise" THEN "commit error" ELSE "commit interrupt"
      [] u.body \in OrdinaryBody \cup InterruptBody -> u.body
      [] OTHER -> "none"

\* C30 (amended): a commit is attempted exactly when the body finished without
\* an exception; a rollback is attempted exactly when the body or the commit
\* was left by an exception that derives from Exception (one that does not,
\* such as KeyboardInterrupt, gets no rollback); close is attempted exactly
\* once, last; what leaves the with statement is the exception of the last of
\* these calls that raised, else the exception of the body, else nothing; when
\* opening failed there is neither rollback nor close and the error propagates.
C30_CommitRollbackCloseAmended ==
    \A k \in 1 .. Len(db.uses) :
        LET u == db.uses[k] IN
        /\ Opened(u) =>
              /\ (Count(u, "commit") = 1) <=> (u.body = "return")
              /\ Count(u, "commit") <= 1
              /\ (Count(u, "rollback") = 1) <=>
                    (u.body \in OrdinaryBody \/ Res(u, "commit") = "raise")
              /\ Count(u, "rollback") <= 1
              /\ (u.body \in InterruptBody \/ Res(u, "commit") = "interrupt") =>
                    Count(u, "rollback") = 0
              /\ ClosedOnceAtEnd(u)
              /\ \A i, j \in 1 .. Len(u.calls) :
                    (u.calls[i].op \in {"commit", "rollback"} /\ u.calls[j].op = "close") => i < j
              /\ u.out = Surfaces(u)
        /\ ~Opened(u) =>
              /\ Ops(u) = <<"connect">>
              /\ u.out = (IF u.calls[1].res = "raise" THEN "connect error" ELSE "connect interrupt")

C30_Witness ==
    /\ Len(db.uses) = 2
    /\ Ops(db.uses[1]) = <<"connect", "commit", "rollback", "close">>
    /\ Res(db.uses[1], "commit") = "raise"
    /\ db.uses[1].out = "commit error"
    /\ db.uses[2].body = "return"
    /\ Ops(db.uses[2]) = <<"connect", "commit", "close">>
    /\ Res(db.uses[2], "commit") = "interrupt"
    /\ db.uses[2].out = "commit interrupt"

====
